---------------------------- MODULE Spec2Model ----------------------------
(***************************************************************************)
(* A model of the pharmacy look-up bot of src/pharmacy_bot.py: the input   *)
(* classification and the orchestration of handle_message, the identifier  *)
(* extraction of search_pharmacies, the field extraction of                *)
(* get_pharmacy_details and the validator is_valid_ods_code.               *)
(*                                                                         *)
(* Text is a sequence of one-character strings, so that upper-casing,      *)
(* stripping and the regular expressions of the source are computed on     *)
(* characters, as Python computes them.                                    *)
(***************************************************************************)
EXTENDS Integers, Sequences, FiniteSets, TLC

(***************************************************************************)
(* Bounds of the model.                                                    *)
(***************************************************************************)
\* longest message text and longest validator argument that are enumerated
MaxLen == 6

(***************************************************************************)
(* Characters and strings (Python str).                                    *)
(***************************************************************************)
Upper26 == << "A", "B", "C", "D", "E", "F", "G", "H", "I", "J", "K", "L", "M",
              "N", "O", "P", "Q", "R", "S", "T", "U", "V", "W", "X", "Y", "Z" >>

Lower26 == << "a", "b", "c", "d", "e", "f", "g", "h", "i", "j", "k", "l", "m",
              "n", "o", "p", "q", "r", "s", "t", "u", "v", "w", "x", "y", "z" >>

UpperSet == { Upper26[i] : i \in 1..26 }

LowerSet == { Lower26[i] : i \in 1..26 }

DigitSet == { "0", "1", "2", "3", "4", "5", "6", "7", "8", "9" }

\* the characters str.strip() and the class \s take for white space
WhiteSet == { " ", "\n", "\t" }

\* str.upper() on one character
UpperCh(c) ==
    IF c \in LowerSet THEN Upper26[CHOOSE i \in 1..26 : Lower26[i] = c] ELSE c

\* str.lower() on one character
LowerCh(c) ==
    IF c \in UpperSet THEN Lower26[CHOOSE i \in 1..26 : Upper26[i] = c] ELSE c

\* str.upper()
StrUpper(s) == [ i \in 1..Len(s) |-> UpperCh(s[i]) ]

\* str.lower()
StrLower(s) == [ i \in 1..Len(s) |-> LowerCh(s[i]) ]

\* str.strip(): leading and trailing white space removed
RECURSIVE StrStrip(_)
StrStrip(s) ==
    IF s = << >> THEN s
    ELSE IF s[1] \in WhiteSet THEN StrStrip(Tail(s))
    ELSE IF s[Len(s)] \in WhiteSet THEN StrStrip(SubSeq(s, 1, Len(s) - 1))
    ELSE s

\* "needle in s" of Python: needle is a contiguous part of s
StrContains(s, needle) ==
    \E i \in 1..(Len(s) - Len(needle) + 1) :
        SubSeq(s, i, i + Len(needle) - 1) = needle

\* every string of length at most n over the alphabet
StringsUpTo(alphabet, n) == UNION { [1..k -> alphabet] : k \in 0..n }

(***************************************************************************)
(* Regular expressions of the source, matched as Python's re matches them. *)
(***************************************************************************)
\* [A-Z], also [a-z] under re.IGNORECASE
ReAlpha(c, ignorecase) == c \in UpperSet \/ (ignorecase /\ c \in LowerSet)

\* [A-Z0-9], also [a-z] under re.IGNORECASE
ReAlNum(c, ignorecase) == ReAlpha(c, ignorecase) \/ c \in DigitSet

\* "$" before position i: the end of the string, or just before a newline
\* that ends the string
ReDollar(s, i) == i = Len(s) + 1 \/ (i = Len(s) /\ s[i] = "\n")

\* re.match(r'^[A-Z][A-Z0-9]{4}$', s) (with flags=re.IGNORECASE when ignorecase)
ReMatchOds(s, ignorecase) ==
    /\ Len(s) >= 5
    /\ ReAlpha(s[1], ignorecase)
    /\ \A k \in 2..5 : ReAlNum(s[k], ignorecase)
    /\ ReDollar(s, 6)

CLASS == << "C", "L", "A", "S", "S" >>

WIDTH == << "W", "I", "D", "T", "H" >>

HTTPS == << "H", "T", "T", "P", "S" >>

\* the list ["CLASS", "WIDTH", "HTTPS"] of false positives
Denylist == { CLASS, WIDTH, HTTPS }

(***************************************************************************)
(* is_valid_ods_code                                                       *)
(***************************************************************************)

\* truthiness of is_valid_ods_code(code)
is_valid_ods_code(code) ==
    IF code = << >> THEN FALSE
    ELSE ReMatchOds(code, FALSE) /\ code \notin Denylist


(***************************************************************************)
(* State.                                                                  *)
(***************************************************************************)
VARIABLES
    \* is_valid_ods_code: the argument of the call and what it returned
    odsArg, odsRet,
    \* handle_message: the text of the pending update, the position of the
    \* coroutine, its locals, and what the chat shows
    update, pc, route, pharmacy_id, postcode, pharmacy_ids, results,
    status_msg, replies,
    \* the search thread, the detail tasks and their browser sessions, the
    \* queue and the timer of asyncio.as_completed
    search, tasks, doneQ, consumed, timerFired,
    \* history: the input of the request, as the claims describe inputs, the
    \* tasks that had returned a record when the collection timer fired, and
    \* the calls on which the whole request rests whose browser did not start
    \* (0: the search, 1: the direct look-up)
    asked, atExpiry, startFailed,
    \* search_pharmacies: the position of the call, the page in the browser,
    \* the local list pharmacy_ids, the returned list and the browser session
    sp_pc, page, sp_pharmacy_ids, sp_ret, sp_driver,
    \* history: how the page load ended, what each strategy examined and
    \* accepted, in order, and the strategy whose return produced the list
    sp_load, seen, producer,
    \* get_pharmacy_details: the position of the call, its argument, the
    \* detail page in the browser, the local pharmacy_name, what the call
    \* returned and the browser session
    gd_pc, gd_id, gd_page, pharmacy_name, gd_ret, gd_driver,
    \* history: how the page load ended, what the validity gate decided, the
    \* pass that built the record and the fields that have been extracted
    \* from the page
    gd_load, gd_gate, gd_pass, extracted,
    \* handle_message of bot.py: the text of the pending update, the position
    \* of the coroutine, its locals pharmacy_ids and results, the progress
    \* message and the other messages of the chat, and the number of browser
    \* sessions of the request that are open
    bot_update, bot_pc, bot_ids, bot_results, progress_msg, bot_replies,
    bot_open,
    \* the concurrent detail fetches of the running requests: the position
    \* of each call of get_pharmacy_details, its local variable driver (0:
    \* unbound), and the browser sessions webdriver.Chrome has created, each
    \* with its state and the fetches that have driven it
    fx_pc, fx_driver, chrome,
    \* the extraction of one metric: the text of the page, the metric, the
    \* value put into the record, and the position of the computation
    mt_text, mt_metric, mt_ret, mt_pc,
    \* handle_message of pharmacy_data.py: the text of the update, where the
    \* coroutine is, the identifiers found, the results of the scrapes, the
    \* screenshot files on disk (by identifier), the index of the result
    \* being formatted and the messages sent
    pd_update, pd_pc, pd_ids, pd_results, pd_files, pd_next, pd_replies

odsVars == << odsArg, odsRet >>

hmVars == << update, pc, route, pharmacy_id, postcode, pharmacy_ids, results,
             status_msg, replies, search, tasks, doneQ, consumed, timerFired,
             asked, atExpiry, startFailed >>

spVars == << sp_pc, page, sp_pharmacy_ids, sp_ret, sp_driver, sp_load, seen,
             producer >>

gdVars == << gd_pc, gd_id, gd_page, pharmacy_name, gd_ret, gd_driver, gd_load,
             gd_gate, gd_pass, extracted >>

fxVars == << fx_pc, fx_driver, chrome >>

mtVars == << mt_text, mt_metric, mt_ret, mt_pc >>

pdVars == << pd_update, pd_pc, pd_ids, pd_results, pd_files, pd_next,
             pd_replies >>

botVars == << bot_update, bot_pc, bot_ids, bot_results, progress_msg,
              bot_replies, bot_open >>

\* the variables that handle_message leaves alone
restVars == << odsVars, spVars, gdVars, botVars, fxVars, mtVars, pdVars >>

vars == << odsVars, hmVars, spVars, gdVars, botVars, fxVars, mtVars, pdVars >>

(***************************************************************************)
(* is_valid_ods_code as a state machine: one call on one argument.         *)
(***************************************************************************)
OdsAlphabet == { "A", "a", "1", "\n" }

\* the arguments tried: every short string over OdsAlphabet, and the listed
\* false positives as they are, lower-cased, shortened and lengthened
OdsInputs ==
    StringsUpTo(OdsAlphabet, MaxLen)
        \cup Denylist
        \cup { StrLower(d) : d \in Denylist }
        \cup { SubSeq(d, 1, 4) : d \in Denylist }
        \cup { d \o << c >> : d \in Denylist, c \in { "S", "1", "\n" } }

\* no message is being handled
HmIdle ==
    /\ update = << >> /\ pc = "done" /\ route = "none"
    /\ pharmacy_id = << >> /\ postcode = << >> /\ pharmacy_ids = << >>
    /\ results = << >> /\ status_msg = [ text |-> "none", n |-> 0 ]
    /\ replies = << >> /\ search = [ st |-> "none", ret |-> << >> ]
    /\ tasks = << >> /\ doneQ = << >>
    /\ consumed = 0 /\ timerFired = FALSE
    /\ asked = [ id |-> << >>, deny |-> FALSE, canon |-> << >> ]
    /\ atExpiry = { } /\ startFailed = { }

\* no call of is_valid_ods_code is modelled
OdsIdle == odsArg = << >> /\ odsRet = "falsy"

\* no call of search_pharmacies is modelled
SpIdle ==
    /\ sp_pc = "done" /\ page = [ kind |-> "p", rows |-> << >> ]
    /\ sp_pharmacy_ids = << >> /\ sp_ret = << >> /\ sp_driver = "none"
    /\ sp_load = "none" /\ seen = [ a \in 1..5 |-> << >> ] /\ producer = 0

\* what get_pharmacy_details returns: a record, or None
Record(id, name, address, pcode, metric) ==
    [ none |-> FALSE, id |-> id, name |-> name, address |-> address,
      postcode |-> pcode, metric |-> metric ]

NoRecord ==
    [ none |-> TRUE, id |-> << >>, name |-> << >>, address |-> << >>,
      postcode |-> << >>, metric |-> << >> ]

\* no call of get_pharmacy_details is modelled
GdIdle ==
    /\ gd_pc = "done" /\ gd_id = << >>
    /\ gd_page = [ h |-> << >>, title |-> << >>, addr |-> << >>,
                   metrics |-> { }, marker |-> << >> ]
    /\ pharmacy_name = << >> /\ gd_ret = NoRecord /\ gd_driver = "none"
    /\ gd_load = "none" /\ gd_gate = "none" /\ gd_pass = "none"
    /\ extracted = { }

\* no message is being handled by bot.py
BotIdle ==
    /\ bot_update = << >> /\ bot_pc = "done" /\ bot_ids = << >>
    /\ bot_results = << >> /\ progress_msg = "none" /\ bot_replies = << >>
    /\ bot_open = 0

\* the requests that run at the same time and the detail fetches of each
FxRequests == 1..2

FxFan == 2

Fetches == FxRequests \X (1..FxFan)

\* no concurrent fetches are modelled
FxIdle ==
    /\ fx_pc = [ f \in Fetches |-> "none" ]
    /\ fx_driver = [ f \in Fetches |-> 0 ]
    /\ chrome = << >>

\* no extraction of a single metric is modelled
MtIdle ==
    /\ mt_text = << >> /\ mt_metric = "items" /\ mt_ret = << >>
    /\ mt_pc = "done"

\* pharmacy_data.py handles no message
PdIdle ==
    /\ pd_update = << >> /\ pd_pc = "done" /\ pd_ids = << >>
    /\ pd_results = << >> /\ pd_files = { } /\ pd_next = 1
    /\ pd_replies = << >>

OdsInit ==
    /\ odsArg \in OdsInputs
    /\ odsRet = "unset"
    /\ HmIdle
    /\ SpIdle
    /\ GdIdle
    /\ BotIdle
    /\ PdIdle
    /\ MtIdle
    /\ FxIdle

\* the call returns: a match object (truthy), or None or False (falsy)
OdsCall ==
    /\ odsRet = "unset"
    /\ odsRet' = IF is_valid_ods_code(odsArg) THEN "truthy" ELSE "falsy"
    /\ UNCHANGED << odsArg, hmVars, spVars, gdVars, botVars, fxVars, mtVars,
                    pdVars >>

OdsNext == OdsCall

SpecOds == OdsInit /\ [][OdsNext]_vars

\* the shape of an identifier: an upper-case letter and four upper-case
\* letters or digits
IdShape(s) ==
    /\ Len(s) = 5
    /\ s[1] \in UpperSet
    /\ \A k \in 2..5 : s[k] \in UpperSet \cup DigitSet

(* C2: is_valid_ods_code returns a true value exactly for the 5-character  *)
(* strings made of an upper-case letter and four upper-case letters or     *)
(* digits that are not CLASS, WIDTH or HTTPS, and a false value for every  *)
(* other string, the empty one and those of another length included.       *)
C2_OdsValidatorExact ==
    odsRet # "unset" =>
        (odsRet = "truthy" <=> (IdShape(odsArg) /\ odsArg \notin Denylist))

(***************************************************************************)
(* handle_message: classification of the input.                            *)
(***************************************************************************)
\* re.match(r'^([A-Z]{1,2}[0-9][A-Z0-9]?)[ -]?([0-9][A-Z]{2})$', s,
\* re.IGNORECASE): the ways to split s into the two groups, as << n1, sep >>
\* with n1 the length of group 1 and sep the length of the separator.  The
\* character classes make the split unique, so that the first split the
\* backtracking finds is the only one.
PostcodeSplits(s) ==
    { sp \in (2..4) \X (0..1) :
        LET n1  == sp[1]
            in1 == n1 + sp[2] + 1
        IN  /\ Len(s) >= in1 + 2
            /\ \E letters \in 1..2 :
                  /\ letters + 1 <= n1 /\ n1 <= letters + 2
                  /\ \A k \in 1..letters : ReAlpha(s[k], TRUE)
                  /\ s[letters + 1] \in DigitSet
                  /\ n1 = letters + 2 => ReAlNum(s[n1], TRUE)
            /\ sp[2] = 1 => s[n1 + 1] \in { " ", "-" }
            /\ s[in1] \in DigitSet
            /\ ReAlpha(s[in1 + 1], TRUE)
            /\ ReAlpha(s[in1 + 2], TRUE)
            /\ ReDollar(s, in1 + 3) }

\* f"{postcode_match.group(1)} {postcode_match.group(2)}"
NormalizedPostcode(s) ==
    LET sp  == CHOOSE x \in PostcodeSplits(s) : TRUE
        in1 == sp[1] + sp[2] + 1
    IN  SubSeq(s, 1, sp[1]) \o << " " >> \o SubSeq(s, in1, in1 + 2)

\* a variant of the first test of handle_message without re.IGNORECASE
IsDirectCode_casesensitive(user_input) ==
    ReMatchOds(user_input, FALSE) /\ StrUpper(user_input) \notin Denylist

\* a variant of the first test of handle_message without the denylist
IsDirectCode_nodeny(user_input) == ReMatchOds(user_input, TRUE)

\* the first test of handle_message: a direct pharmacy ODS code
IsDirectCode(user_input) ==
    ReMatchOds(user_input, TRUE) /\ StrUpper(user_input) \notin Denylist

(***************************************************************************)
(* handle_message: presentation order of the records.                      *)
(***************************************************************************)
\* the characters of the model in code point order, as Python compares str
CodePoints == << "\t", "\n", " ", "#", "%", "&", "(", ")", ",", "-", ".",
                 "0", "1", "2", "3", "4", "5", "6", "7", "8", "9", ":" >>
              \o Upper26 \o Lower26

Ord(c) == CHOOSE i \in 1..Len(CodePoints) : CodePoints[i] = c

\* a < b on str
RECURSIVE StrLess(_, _)
StrLess(a, b) ==
    IF b = << >> THEN FALSE
    ELSE IF a = << >> THEN TRUE
    ELSE IF a[1] # b[1] THEN Ord(a[1]) < Ord(b[1])
    ELSE StrLess(Tail(a), Tail(b))

Boots == << "B", "o", "o", "t", "s" >>

\* a variant of the sort key that is the name alone
SortKeyLess_byname(p, q) == StrLess(p.name, q.name)

\* key=lambda p: (0 if "Boots" in p.get('name', '') else 1, p.get('name', ''))
SortKeyLess(p, q) ==
    LET kp == IF StrContains(p.name, Boots) THEN 0 ELSE 1
        kq == IF StrContains(q.name, Boots) THEN 0 ELSE 1
    IN  kp < kq \/ (kp = kq /\ StrLess(p.name, q.name))

\* x put into the sorted list after the entries that are not greater
RECURSIVE SortedInsert(_, _)
SortedInsert(sorted, x) ==
    IF sorted = << >> THEN << x >>
    ELSE IF SortKeyLess(x, Head(sorted)) THEN << x >> \o sorted
    ELSE << Head(sorted) >> \o SortedInsert(Tail(sorted), x)

\* sorted(results, key=...): a stable sort
RECURSIVE SortedResults(_)
SortedResults(rs) ==
    IF rs = << >> THEN << >>
    ELSE SortedInsert(SortedResults(SubSeq(rs, 1, Len(rs) - 1)), rs[Len(rs)])

(***************************************************************************)
(* handle_message: the inputs and how the claims describe them.            *)
(***************************************************************************)
HmAlphabet == { "A", "a", "1", " ", "-" }

\* the message texts tried: every short text over HmAlphabet, and the listed
\* false positives in three casings.  The handler is registered for
\* filters.TEXT (line 934) and Telegram delivers no text that is empty or only
\* white space, so that each text holds a character that is not white space.
Inputs ==
    { s \in StringsUpTo(HmAlphabet, MaxLen) : StrStrip(s) # << >> }
        \cup Denylist
        \cup { StrLower(d) : d \in Denylist }
        \cup { << d[1] >> \o StrLower(Tail(d)) : d \in Denylist }

\* the outward and inward codes of a postcode, in canonical (upper) case,
\* over the letters and digits of HmAlphabet
CanonOutward ==
    LET L == { "A" }
        D == { "1" }
    IN  { << l, d >> : l \in L, d \in D }
            \cup { << l, d, x >> : l \in L, d \in D, x \in L \cup D }
            \cup { << l, m, d >> : l \in L, m \in L, d \in D }
            \cup { << l, m, d, x >> : l \in L, m \in L, d \in D, x \in L \cup D }

CanonInward == { << "1", "A", "A" >> }

\* the canonical forms of which the text t is a typing: any casing, and a
\* space, a hyphen or nothing between the outward and the inward code
CanonOf(t) ==
    { p[1] \o << " " >> \o p[2] :
        p \in { q \in CanonOutward \X CanonInward :
                  StrUpper(t) \in { q[1] \o q[2],
                                    q[1] \o << " " >> \o q[2],
                                    q[1] \o << "-" >> \o q[2] } } }

\* an input as the claims see it: the accepted identifier it types
\* (identifier shape after upper-casing, not denylisted; empty when it types
\* none), whether it is a denylisted token, and the canonical postcode it
\* types (empty when it types none)
Typed(text) ==
    LET t == StrStrip(text)
    IN  [ id    |-> IF IdShape(StrUpper(t)) /\ StrUpper(t) \notin Denylist
                    THEN StrUpper(t) ELSE << >>,
          deny  |-> StrUpper(t) \in Denylist,
          canon |-> IF CanonOf(t) = { } THEN << >>
                    ELSE CHOOSE c \in CanonOf(t) : TRUE ]

(***************************************************************************)
(* handle_message and the threads it starts.                               *)
(***************************************************************************)
\* pharmacy_ids[:5] and the [:5] of every return of search_pharmacies
MaxPharmacies == 5

Min(a, b) == IF a < b THEN a ELSE b

IdDigits == << "1", "2", "3", "4", "5", "6", "7", "8", "9" >>

\* the i-th identifier of a search result
PharmId(i) == << "F", "J", "1", "4", IdDigits[i] >>

\* what search_pharmacies may return: up to five distinct identifiers
SearchReturns == { [ i \in 1..k |-> PharmId(i) ] : k \in 0..MaxPharmacies }

\* the name on the detail page of the i-th identifier: names with and without
\* "Boots", one a prefix of another, two equal, in an order that is not the
\* order of the identifiers
PharmName(i) ==
    CASE i = 1 -> << "Z", "e", "d" >>
      [] i = 2 -> Boots \o << " ", "B" >>
      [] i = 3 -> << "A", "s", "d", "a" >>
      [] i = 4 -> Boots
      [] OTHER -> << "A", "s", "d", "a" >>

NoOut == [ kind |-> "unset", name |-> << >> ]

\* what detail task i may end with once its browser runs: None or the record
\* of its page
DetailReturns(i) ==
    { [ kind |-> "none", name |-> << >> ],
      [ kind |-> "record", name |-> PharmName(i) ] }

Status(text, n) == [ text |-> text, n |-> n ]

Reply(kind, id, name) == [ kind |-> kind, id |-> id, name |-> name ]

NewTask(id) == [ id |-> id, st |-> "pending", out |-> NoOut ]

HmInit ==
    /\ update \in Inputs
    /\ asked = Typed(update)
    /\ pc = "idle" /\ route = "none"
    /\ pharmacy_id = << >> /\ postcode = << >> /\ pharmacy_ids = << >>
    /\ results = << >> /\ status_msg = Status("none", 0)
    /\ replies = << >>
    /\ search = [ st |-> "none", ret |-> << >> ]
    /\ tasks = << >> /\ doneQ = << >> /\ consumed = 0 /\ timerFired = FALSE
    /\ atExpiry = { } /\ startFailed = { }
    /\ OdsIdle
    /\ SpIdle
    /\ GdIdle
    /\ BotIdle
    /\ PdIdle
    /\ MtIdle
    /\ FxIdle

\* lines 669-768: the update is read, stripped and classified; a direct code
\* starts one detail look-up, a postcode is normalized and starts the search,
\* anything else is answered at once
HM_Receive ==
    /\ pc = "idle"
    /\ LET user_input == StrStrip(update)
           upper      == StrStrip(StrUpper(user_input))
       IN  IF IsDirectCode(user_input)
           THEN /\ route' = "direct"
                /\ pharmacy_id' = StrUpper(user_input)
                /\ status_msg' = Status("looking_up", 0)
                /\ tasks' = << NewTask(StrUpper(user_input)) >>
                /\ pc' = "lookup"
                /\ UNCHANGED << postcode, replies, search >>
           ELSE IF user_input = << >>
           THEN /\ route' = "rejected"
                /\ replies' = << Reply("enter_valid_postcode", << >>, << >>) >>
                /\ pc' = "done"
                /\ UNCHANGED << pharmacy_id, postcode, status_msg, tasks,
                                search >>
           ELSE IF PostcodeSplits(upper) = { }
           THEN /\ route' = "rejected"
                /\ replies' = << Reply("postcode_format_error", << >>, << >>) >>
                /\ pc' = "done"
                /\ UNCHANGED << pharmacy_id, postcode, status_msg, tasks,
                                search >>
           ELSE /\ route' = "postcode"
                /\ postcode' = NormalizedPostcode(upper)
                /\ status_msg' = Status("searching", 0)
                /\ search' = [ st |-> "pending", ret |-> << >> ]
                /\ pc' = "search"
                /\ UNCHANGED << pharmacy_id, replies, tasks >>
    /\ update' = << >>
    /\ UNCHANGED << pharmacy_ids, results, doneQ, consumed, timerFired, asked,
                    atExpiry, startFailed, restVars >>

\* search_pharmacies in its thread, lines 115-120: the browser starts
Search_Start ==
    /\ search.st = "pending"
    /\ search' = [ search EXCEPT !.st = "open" ]
    /\ UNCHANGED << update, pc, route, pharmacy_id, postcode, pharmacy_ids,
                    results, status_msg, replies, tasks, doneQ, consumed,
                    timerFired, asked, atExpiry, startFailed, restVars >>

\* lines 116, 333-335: the browser does not start, the call returns []
Search_StartFail ==
    /\ search.st = "pending"
    /\ search' = [ st |-> "returned", ret |-> << >> ]
    /\ startFailed' = startFailed \cup { 0 }
    /\ UNCHANGED << update, pc, route, pharmacy_id, postcode, pharmacy_ids,
                    results, status_msg, replies, tasks, doneQ, consumed,
                    timerFired, asked, atExpiry, restVars >>

\* lines 153-340: the call returns its identifiers and quits the browser
Search_Return ==
    /\ search.st = "open"
    /\ \E ids \in SearchReturns : search' = [ st |-> "returned", ret |-> ids ]
    /\ UNCHANGED << update, pc, route, pharmacy_id, postcode, pharmacy_ids,
                    results, status_msg, replies, tasks, doneQ, consumed,
                    timerFired, asked, atExpiry, startFailed, restVars >>

\* a variant of the search timeout that goes on to fetch the details of an
\* identifier
HM_SearchTimeout_fetches ==
    /\ pc = "search"
    /\ search.st \in { "pending", "open" }
    /\ status_msg' = Status("search_timeout", 0)
    /\ tasks' = << NewTask(PharmId(1)) >>
    /\ pc' = "collect"
    /\ UNCHANGED << update, route, pharmacy_id, postcode, pharmacy_ids,
                    results, replies, search, doneQ, consumed, timerFired,
                    asked, atExpiry, startFailed, restVars >>

\* lines 777-785: the 30 seconds of asyncio.wait_for pass first
HM_SearchTimeout ==
    /\ pc = "search"
    /\ search.st \in { "pending", "open" }
    /\ status_msg' = Status("search_timeout", 0)
    /\ pc' = "done"
    /\ UNCHANGED << update, route, pharmacy_id, postcode, pharmacy_ids,
                    results, replies, search, tasks, doneQ, consumed,
                    timerFired, asked, atExpiry, startFailed, restVars >>

\* a variant of the step after the search that creates two tasks for each
\* identifier
HM_SearchDone_twice ==
    /\ pc = "search"
    /\ search.st = "returned"
    /\ pharmacy_ids' = search.ret
    /\ IF search.ret = << >>
       THEN /\ status_msg' = Status("no_pharmacies", 0)
            /\ pc' = "done"
            /\ UNCHANGED tasks
       ELSE /\ status_msg' = Status("found", 0)
            /\ tasks' = [ i \in 1..(2 * Len(search.ret)) |->
                            NewTask(search.ret[(i + 1) \div 2]) ]
            /\ pc' = "collect"
    /\ UNCHANGED << update, route, pharmacy_id, postcode, results, replies,
                    search, doneQ, consumed, timerFired, asked, atExpiry,
                    startFailed, restVars >>

\* a variant of the step after the search that does not test the list: it
\* announces what was found and goes on to collect
HM_SearchDone_nocheck ==
    /\ pc = "search"
    /\ search.st = "returned"
    /\ pharmacy_ids' = search.ret
    /\ status_msg' = Status("found", 0)
    /\ tasks' = [ i \in 1..Min(Len(search.ret), MaxPharmacies) |->
                    NewTask(search.ret[i]) ]
    /\ pc' = "collect"
    /\ UNCHANGED << update, route, pharmacy_id, postcode, results, replies,
                    search, doneQ, consumed, timerFired, asked, atExpiry,
                    startFailed, restVars >>

\* lines 777, 794-824: the search returned; without identifiers the user is
\* told so, otherwise one detail task per identifier, five at most, is
\* created and asyncio.as_completed starts its timer
HM_SearchDone ==
    /\ pc = "search"
    /\ search.st = "returned"
    /\ pharmacy_ids' = search.ret
    /\ IF search.ret = << >>
       THEN /\ status_msg' = Status("no_pharmacies", 0)
            /\ pc' = "done"
            /\ UNCHANGED tasks
       ELSE /\ status_msg' = Status("found", 0)
            /\ tasks' = [ i \in 1..Min(Len(search.ret), MaxPharmacies) |->
                            NewTask(search.ret[i]) ]
            /\ pc' = "collect"
    /\ UNCHANGED << update, route, pharmacy_id, postcode, results, replies,
                    search, doneQ, consumed, timerFired, asked, atExpiry,
                    startFailed, restVars >>

\* task i is done with `out`; asyncio.as_completed queues it while it still
\* listens (its timer has not fired)
Finish(i, out) ==
    /\ tasks' = [ tasks EXCEPT ![i].st = "done", ![i].out = out ]
    /\ doneQ' = IF pc = "collect" /\ ~timerFired THEN Append(doneQ, i)
                ELSE doneQ

\* get_pharmacy_details in its thread, lines 353-358: the browser starts
Detail_Start(i) ==
    /\ tasks[i].st = "pending"
    /\ tasks' = [ tasks EXCEPT ![i].st = "open" ]
    /\ UNCHANGED << update, pc, route, pharmacy_id, postcode, pharmacy_ids,
                    results, status_msg, replies, search, doneQ, consumed,
                    timerFired, asked, atExpiry, startFailed, restVars >>

\* lines 354, 627-629: the browser does not start, the call returns None
Detail_StartFail(i) ==
    /\ tasks[i].st = "pending"
    /\ Finish(i, [ kind |-> "none", name |-> << >> ])
    /\ startFailed' = IF route = "direct" THEN startFailed \cup { i }
                       ELSE startFailed
    /\ UNCHANGED << update, pc, route, pharmacy_id, postcode, pharmacy_ids,
                    results, status_msg, replies, search, consumed,
                    timerFired, asked, atExpiry, restVars >>

\* lines 372-634: the call returns None or a record and quits the browser
Detail_Return(i) ==
    /\ tasks[i].st = "open"
    /\ \E out \in DetailReturns(i) : Finish(i, out)
    /\ UNCHANGED << update, pc, route, pharmacy_id, postcode, pharmacy_ids,
                    results, status_msg, replies, search, consumed,
                    timerFired, asked, atExpiry, startFailed, restVars >>

\* line 824: the 30 seconds of asyncio.as_completed pass while a task is not
\* done; the tasks still running are no longer listened to
HM_Timer ==
    /\ pc = "collect"
    /\ ~timerFired
    /\ \E i \in 1..Len(tasks) : tasks[i].st # "done"
    /\ timerFired' = TRUE
    /\ doneQ' = Append(doneQ, 0)
    /\ atExpiry' = { i \in 1..Len(tasks) :
                        tasks[i].st = "done" /\ tasks[i].out.kind = "record" }
    /\ UNCHANGED << update, pc, route, pharmacy_id, postcode, pharmacy_ids,
                    results, status_msg, replies, search, tasks, consumed,
                    asked, startFailed, restVars >>

\* a variant of the collection that gives up on a timeout although records
\* were collected
CollectStep_droponTimeout(h) ==
    IF h = 0
    THEN /\ status_msg' = Status("timed_out", 0)
         /\ pc' = "done"
         /\ UNCHANGED << results, consumed >>
    ELSE /\ consumed' = consumed + 1
         /\ pc' = IF consumed + 1 = Len(tasks) THEN "send" ELSE "collect"
         /\ IF tasks[h].out.kind = "record"
            THEN /\ results' = Append(results,
                                 [ id |-> tasks[h].id, name |-> tasks[h].out.name ])
                 /\ status_msg' = Status("progress", Len(results) + 1)
            ELSE UNCHANGED << results, status_msg >>

\* a variant of the collection that keeps one record only
CollectStep_keepone(h) ==
    IF h = 0
    THEN IF results = << >>
         THEN /\ status_msg' = Status("timed_out", 0)
              /\ pc' = "done"
              /\ UNCHANGED << results, consumed >>
         ELSE /\ pc' = "send"
              /\ UNCHANGED << results, status_msg, consumed >>
    ELSE /\ consumed' = consumed + 1
         /\ pc' = IF consumed + 1 = Len(tasks) THEN "send" ELSE "collect"
         /\ IF tasks[h].out.kind = "record" /\ results = << >>
            THEN /\ results' = Append(results,
                                 [ id |-> tasks[h].id, name |-> tasks[h].out.name ])
                 /\ status_msg' = Status("progress", Len(results) + 1)
            ELSE UNCHANGED << results, status_msg >>

\* a variant of the collection that ends the loop at the first task that
\* returned None
CollectStep_stoponNone(h) ==
    IF h = 0
    THEN IF results = << >>
         THEN /\ status_msg' = Status("timed_out", 0)
              /\ pc' = "done"
              /\ UNCHANGED << results, consumed >>
         ELSE /\ pc' = "send"
              /\ UNCHANGED << results, status_msg, consumed >>
    ELSE /\ consumed' = consumed + 1
         /\ IF tasks[h].out.kind = "record"
            THEN /\ results' = Append(results,
                                 [ id |-> tasks[h].id, name |-> tasks[h].out.name ])
                 /\ status_msg' = Status("progress", Len(results) + 1)
                 /\ pc' = IF consumed + 1 = Len(tasks) THEN "send"
                          ELSE "collect"
            ELSE /\ pc' = "send"
                 /\ UNCHANGED << results, status_msg >>

\* lines 824-840, one turn of the loop on the head h of the queue: the
\* timeout (h = 0) ends the request when nothing was collected and the loop
\* otherwise; a record is appended and the progress shown; None is skipped
CollectStep(h) ==
    IF h = 0
    THEN IF results = << >>
         THEN /\ status_msg' = Status("timed_out", 0)
              /\ pc' = "done"
              /\ UNCHANGED << results, consumed >>
         ELSE /\ pc' = "send"
              /\ UNCHANGED << results, status_msg, consumed >>
    ELSE /\ consumed' = consumed + 1
         /\ pc' = IF consumed + 1 = Len(tasks) THEN "send" ELSE "collect"
         /\ IF tasks[h].out.kind = "record"
            THEN /\ results' = Append(results,
                                 [ id |-> tasks[h].id, name |-> tasks[h].out.name ])
                 /\ status_msg' = Status("progress", Len(results) + 1)
            ELSE UNCHANGED << results, status_msg >>

HM_Collect ==
    /\ pc = "collect"
    /\ doneQ # << >>
    /\ CollectStep(Head(doneQ))
    /\ doneQ' = Tail(doneQ)
    /\ UNCHANGED << update, route, pharmacy_id, postcode, pharmacy_ids,
                    replies, search, tasks, timerFired, asked, atExpiry,
                    startFailed, restVars >>

\* a variant of the sending that takes the record of every task that is
\* done by then, collected or not
HM_Send_alldone ==
    /\ pc = "send"
    /\ LET done == SelectSeq(tasks, LAMBDA t : t.st = "done"
                                                /\ t.out.kind = "record")
           all  == [ k \in 1..Len(done) |->
                       [ id |-> done[k].id, name |-> done[k].out.name ] ]
       IN  IF all # << >>
           THEN /\ results' = SortedResults(all)
                /\ status_msg' = Status("deleted", 0)
                /\ replies' = replies \o
                       [ k \in 1..Len(all) |->
                           Reply("record", SortedResults(all)[k].id,
                                 SortedResults(all)[k].name) ]
           ELSE /\ status_msg' = Status("could_not_retrieve", 0)
                /\ UNCHANGED << results, replies >>
    /\ pc' = "done"
    /\ UNCHANGED << update, route, pharmacy_id, postcode, pharmacy_ids,
                    search, tasks, doneQ, consumed, timerFired, asked,
                    atExpiry, startFailed, restVars >>

\* lines 845-900: the records are sorted, the status message announces them
\* and is deleted, and each record is sent as a message of its own; without
\* a record the status message says so
HM_Send ==
    /\ pc = "send"
    /\ IF results # << >>
       THEN /\ results' = SortedResults(results)
            /\ status_msg' = Status("deleted", 0)
            /\ replies' = replies \o
                   [ k \in 1..Len(results) |->
                       Reply("record", SortedResults(results)[k].id,
                             SortedResults(results)[k].name) ]
       ELSE /\ status_msg' = Status("could_not_retrieve", 0)
            /\ UNCHANGED << results, replies >>
    /\ pc' = "done"
    /\ UNCHANGED << update, route, pharmacy_id, postcode, pharmacy_ids,
                    search, tasks, doneQ, consumed, timerFired, asked,
                    atExpiry, startFailed, restVars >>

\* lines 686-726: the direct look-up is over; its record is sent in place of
\* the status message, None is told in the status message
HM_LookupDone ==
    /\ pc = "lookup"
    /\ tasks[1].st = "done"
    /\ IF tasks[1].out.kind = "record"
       THEN /\ status_msg' = Status("deleted", 0)
            /\ replies' = Append(replies,
                              Reply("record", tasks[1].id, tasks[1].out.name))
       ELSE /\ status_msg' = Status("not_found", 0)
            /\ UNCHANGED replies
    /\ pc' = "done"
    /\ UNCHANGED << update, route, pharmacy_id, postcode, pharmacy_ids,
                    results, search, tasks, doneQ, consumed, timerFired,
                    asked, atExpiry, startFailed, restVars >>

HmNext ==
    \/ HM_Receive
    \/ Search_Start
    \/ Search_StartFail
    \/ Search_Return
    \/ HM_SearchTimeout
    \/ HM_SearchDone
    \/ \E i \in 1..Len(tasks) : Detail_Start(i)
    \/ \E i \in 1..Len(tasks) : Detail_StartFail(i)
    \/ \E i \in 1..Len(tasks) : Detail_Return(i)
    \/ HM_Timer
    \/ HM_Collect
    \/ HM_Send
    \/ HM_LookupDone

Spec == HmInit /\ [][HmNext]_vars

(***************************************************************************)
(* Properties of handle_message.                                           *)
(***************************************************************************)
\* the handler has classified the input
Classified == pc # "idle"

\* a browser session was asked for: the search thread or a detail task exists
NoBrowser == search.st = "none" /\ tasks = << >>

RecordReplies == { k \in 1..Len(replies) : replies[k].kind = "record" }

(* C1: every typing of a valid postcode (any casing; a space, a hyphen or  *)
(* nothing between the outward and the inward code) is normalized to the   *)
(* canonical form, upper case with one space, and processed as a postcode  *)
(* search.                                                                 *)
C1_PostcodeTypingsNormalized ==
    (Classified /\ asked.canon # << >>) =>
        (route = "postcode" /\ postcode = asked.canon)

(* C6: an input of identifier shape (after upper-casing) that is not       *)
(* denylisted opens no search session and starts exactly one detail fetch, *)
(* for that identifier; the request ends with exactly one record, sent in  *)
(* place of the status message, or with the not-found message.             *)
C6_DirectCodeSkipsSearch ==
    (Classified /\ asked.id # << >>) =>
        /\ route = "direct"
        /\ search.st = "none"
        /\ Len(tasks) = 1 /\ tasks[1].id = asked.id
        /\ pc = "done" =>
              \/ /\ replies = << Reply("record", asked.id, tasks[1].out.name) >>
                 /\ tasks[1].out.kind = "record"
                 /\ status_msg.text = "deleted"
              \/ /\ replies = << >>
                 /\ status_msg.text = "not_found"

C6_Witness ==
    /\ asked.id = << "A", "1", "1", "A", "A" >>
    /\ pc = "done"
    /\ Len(replies) = 1 /\ replies[1].kind = "record"

(* C7: an input that is neither an accepted identifier nor a typing of the *)
(* postcode pattern, the denylisted tokens included, is answered with the  *)
(* postcode-format error and starts no search and no detail fetch.         *)
C7_InvalidInputNoBrowser ==
    (Classified /\ asked.id = << >> /\ asked.canon = << >>) =>
        /\ pc = "done"
        /\ replies = << Reply("postcode_format_error", << >>, << >>) >>
        /\ status_msg.text = "none"
        /\ NoBrowser

C7_Witness ==
    /\ asked.deny
    /\ pc = "done"
    /\ replies = << Reply("postcode_format_error", << >>, << >>) >>
    /\ NoBrowser

\* every detail fetch has returned a record and the collection timer has
\* not fired
AllRecordsInTime ==
    /\ ~timerFired
    /\ \A i \in 1..Len(tasks) :
          tasks[i].st = "done" /\ tasks[i].out.kind = "record"

(* C8: in a postcode query whose search yields k identifiers, 1 <= k <= 5, *)
(* and whose detail fetches all return a record before the collection      *)
(* timer fires, exactly k records are sent, one for each identifier.       *)
C8_OneRecordPerIdentifier ==
    (route = "postcode" /\ pc = "done" /\ Len(pharmacy_ids) >= 1
        /\ AllRecordsInTime) =>
        /\ Len(pharmacy_ids) <= 5
        /\ Len(replies) = Len(pharmacy_ids)
        /\ \A k \in 1..Len(replies) : replies[k].kind = "record"
        /\ \A i \in 1..Len(pharmacy_ids) :
              Cardinality({ k \in 1..Len(replies) :
                              replies[k].id = pharmacy_ids[i] }) = 1

C8_Witness ==
    /\ route = "postcode" /\ pc = "done"
    /\ Len(pharmacy_ids) = 5
    /\ AllRecordsInTime
    /\ Len(replies) = 5

(* C10: in a postcode query, when the collection timer fires after a       *)
(* detail fetch has returned a record and before another has ended, the    *)
(* records returned so far are sent, and the status message never shows a  *)
(* failure.                                                                *)
C10_PartialResultsOnTimeout ==
    (route = "postcode" /\ timerFired /\ atExpiry # { }) =>
        /\ status_msg.text \notin { "timed_out", "could_not_retrieve" }
        /\ pc = "done" =>
              /\ status_msg.text = "deleted"
              /\ Len(replies) = Cardinality(atExpiry)
              /\ \A i \in atExpiry :
                    \E k \in 1..Len(replies) :
                        replies[k] = Reply("record", tasks[i].id,
                                           tasks[i].out.name)

C10_Witness ==
    /\ route = "postcode" /\ pc = "done" /\ timerFired
    /\ Cardinality(atExpiry) = 2
    /\ Len(tasks) = 3
    /\ Len(replies) = 2

(***************************************************************************)
(* search_pharmacies: the regular expressions and string operations.       *)
(* re.findall scans from left to right and resumes after each match: a     *)
(* position starts a reported match when the pattern matches there and no  *)
(* reported match that starts earlier covers it.                           *)
(***************************************************************************)
Positions(s) == [ i \in 1..Len(s) |-> i ]

\* [A-Z][A-Z0-9]{4} matches at position i of s
IsCodeAt(s, i) ==
    /\ i >= 1 /\ i + 4 <= Len(s)
    /\ s[i] \in UpperSet
    /\ \A k \in 1..4 : s[i + k] \in UpperSet \cup DigitSet

\* re.findall(r'[A-Z][A-Z0-9]{4}', s)
FindCodes(s) ==
    LET RECURSIVE taken(_)
        taken(i) == /\ IsCodeAt(s, i)
                    /\ \A j \in (i - 4)..(i - 1) : ~(j >= 1 /\ taken(j))
        at == SelectSeq(Positions(s), taken)
    IN  [ k \in 1..Len(at) |-> SubSeq(s, at[k], at[k] + 4) ]

\* re.findall of a pattern of one character of pre, the code (captured) and
\* one character of post: \(..\), >..<, ["\']..["\'], [^A-Z]..[^A-Z0-9]
FindCtx(s, pre, post) ==
    LET hit(i) == /\ i + 6 <= Len(s)
                  /\ s[i] \in pre /\ IsCodeAt(s, i + 1) /\ s[i + 6] \in post
        RECURSIVE taken(_)
        taken(i) == /\ hit(i)
                    /\ \A j \in (i - 6)..(i - 1) : ~(j >= 1 /\ taken(j))
        at == SelectSeq(Positions(s), taken)
    IN  [ k \in 1..Len(at) |-> SubSeq(s, at[k] + 1, at[k] + 5) ]

\* the literal text lit stands at position i of s
LitAt(s, i, lit) ==
    /\ i >= 1 /\ i + Len(lit) - 1 <= Len(s)
    /\ s[i] = lit[1]
    /\ SubSeq(s, i, i + Len(lit) - 1) = lit

\* the end of the longest run of [:\s] that starts at position i
RECURSIVE SkipColonSpace(_, _)
SkipColonSpace(s, i) ==
    IF i <= Len(s) /\ s[i] \in WhiteSet \cup { ":" }
    THEN SkipColonSpace(s, i + 1) ELSE i

\* re.findall(lit + r'[:\s]*([A-Z][A-Z0-9]{4})', s)
FindLabelled(s, lit) ==
    LET code(i) == SkipColonSpace(s, i + Len(lit))
        hit(i)  == LitAt(s, i, lit) /\ IsCodeAt(s, code(i))
        RECURSIVE taken(_)
        taken(i) == /\ hit(i)
                    /\ \A j \in 1..(i - 1) :
                           ~(hit(j) /\ code(j) + 4 >= i /\ taken(j))
        at == SelectSeq(Positions(s), taken)
    IN  [ k \in 1..Len(at) |-> SubSeq(s, code(at[k]), code(at[k]) + 4) ]

\* \w of Python's re on these texts
WordCh == UpperSet \cup LowerSet \cup DigitSet \cup { "_" }

\* re.findall(r'\b([A-Z][A-Z0-9]{4})\b', s)
FindBounded(s) ==
    LET hit(i) == /\ IsCodeAt(s, i)
                  /\ (i = 1 \/ s[i - 1] \notin WordCh)
                  /\ (i + 5 > Len(s) \/ s[i + 5] \notin WordCh)
        at == SelectSeq(Positions(s), hit)
    IN  [ k \in 1..Len(at) |-> SubSeq(s, at[k], at[k] + 4) ]

\* s.find(lit): the first position where lit stands, 0 when there is none
IndexOf(s, lit) ==
    LET at == SelectSeq(Positions(s), LAMBDA i : LitAt(s, i, lit))
    IN  IF at = << >> THEN 0 ELSE at[1]

\* s.split(lit)[0]
UpTo(s, lit) ==
    IF IndexOf(s, lit) = 0 THEN s ELSE SubSeq(s, 1, IndexOf(s, lit) - 1)

\* href.split("query=")[1].split("&")[0], for an href that holds "query="
QueryId(href) ==
    LET rest == SubSeq(href, IndexOf(href, << "q", "u", "e", "r", "y", "=" >>) + 6, Len(href))
    IN  UpTo(UpTo(rest, << "q", "u", "e", "r", "y", "=" >>), << "&" >>)

\* the characters of the pages
Chars ==
    UpperSet \cup LowerSet \cup DigitSet \cup WhiteSet
        \cup { "<", ">", "(", ")", "\"", "'", ":", "=", "&", "?", ".", "/",
               "_", "-", ",", "%", "#" }

(***************************************************************************)
(* search_pharmacies: the page in the browser.  A page is a sequence of    *)
(* elements of one kind (table rows, list items, div.pharmacy-item,        *)
(* div.search-result or plain paragraphs), each with a text of its own and *)
(* at most one anchor.                                                     *)
(***************************************************************************)
MaxRows == 2

Site == << "h", "t", "t", "p", "s", ":", "/", "/", "w", "w", "w", ".", "p",
           "h", "a", "r", "m", "d", "a", "t", "a", ".", "c", "o", ".", "u",
           "k", "/" >>

\* an element without anchor
Plain(text) == [ text |-> text, a |-> << >> ]

\* an element that is an anchor and nothing else
Linked(href, text) ==
    [ text |-> << >>, a |-> << [ href |-> href, text |-> text ] >> ]

\* the elements: more than 5 codes with a repetition, a listed false
\* positive next to a labelled code; a detail link, a detail link with a
\* second parameter and a code as its text, a link to another page, an
\* anchor without href, a profile link whose query is no 5-character text
Elements ==
    { Plain(<< "F", "A", "0", "0", "1", " ", "F", "A", "0", "0", "2", " ",
               "F", "A", "0", "0", "1", " ", "F", "A", "0", "0", "3", " ",
               "F", "A", "0", "0", "4", " ", "F", "A", "0", "0", "5", " ",
               "F", "A", "0", "0", "6" >>),
      Plain(<< "C", "o", "d", "e", ":", " ", "C", "L", "A", "S", "S", " ",
               "(", "F", "J", "1", "4", "4", ")" >>),
      Linked(Site \o << "n", "a", "c", "s", "_", "s", "e", "l", "e", "c",
                        "t", ".", "p", "h", "p", "?", "q", "u", "e", "r",
                        "y", "=", "F", "J", "L", "0", "9" >>, << "B", "o", "o", "t",
                                                       "s" >>),
      Linked(Site \o << "n", "a", "c", "s", "_", "s", "e", "l", "e", "c",
                        "t", ".", "p", "h", "p", "?", "q", "u", "e", "r",
                        "y", "=", "F", "A", "0", "0", "7", "&", "t", "=",
                        "1" >>, << "F", "A", "0", "0",
                                                           "2" >>),
      Linked(Site \o << "a", "b", "o", "u", "t", ".", "p", "h", "p", "?",
                        "q", "u", "e", "r", "y", "=", "F", "A", "0", "0",
                        "8" >>, << "F", "A", "0", "0", "1" >>),
      Linked(<< >>, << "F", "J", "1", "4", "4" >>),
      Linked(Site \o << "p", "r", "o", "f", "i", "l", "e", "?", "q", "u",
                        "e", "r", "y", "=", "F", "J", "1" >>, << "F", "A", "0", "0", "3", " ",
                                             "F", "J", "L", "0", "9" >>) }

Kinds == { "tr", "li", "item", "result", "p" }

Pages ==
    [ kind : Kinds,
      rows : UNION { [ 1..n -> Elements ] : n \in 0..MaxRows } ]

\* a and b joined by sep, nothing added next to an empty text
Join(a, sep, b) ==
    IF a = << >> THEN b ELSE IF b = << >> THEN a ELSE a \o sep \o b

\* WebElement.text of an element: its own text and that of its anchor
RowText(r) ==
    Join(r.text, << " " >>, IF r.a = << >> THEN << >> ELSE r.a[1].text)

\* the mark-up of an anchor
AnchorHtml(l) ==
    IF l.href = << >> THEN << "<", "a", ">" >> \o l.text \o << "<", "/", "a", ">" >>
    ELSE << "<", "a", " ", "h", "r", "e", "f", "=", "\"" >> \o l.href \o << "\"", ">" >> \o l.text \o << "<", "/", "a", ">" >>

\* the mark-up of an element
RowHtml(kind, r) ==
    LET inner == r.text \o (IF r.a = << >> THEN << >> ELSE AnchorHtml(r.a[1]))
    IN  CASE kind = "tr"     -> << "<", "t", "r", ">", "<", "t", "d", ">" >> \o inner \o << "<", "/", "t", "d", ">",
                                                          "<", "/", "t", "r",
                                                          ">" >>
          [] kind = "li"     -> << "<", "l", "i", ">" >> \o inner \o << "<", "/", "l", "i",
                                                      ">" >>
          [] kind = "item"   -> << "<", "d", "i", "v", " ", "c", "l", "a",
                                   "s", "s", "=", "\"", "p", "h", "a", "r",
                                   "m", "a", "c", "y", "-", "i", "t", "e",
                                   "m", "\"", ">" >> \o inner \o << "<", "/", "d", "i", "v",
                                                                             ">" >>
          [] kind = "result" -> << "<", "d", "i", "v", " ", "c", "l", "a",
                                   "s", "s", "=", "\"", "s", "e", "a", "r",
                                   "c", "h", "-", "r", "e", "s", "u", "l",
                                   "t", "\"", ">" >> \o inner \o << "<", "/", "d", "i", "v",
                                                                             ">" >>
          [] OTHER           -> << "<", "p", ">" >> \o inner \o << "<", "/", "p", ">" >>

\* driver.page_source
RECURSIVE PageSource(_, _)
PageSource(p, i) ==
    IF i > Len(p.rows) THEN << >>
    ELSE RowHtml(p.kind, p.rows[i]) \o PageSource(p, i + 1)

\* driver.find_element(By.TAG_NAME, "body").text
RECURSIVE BodyText(_, _)
BodyText(p, i) ==
    IF i > Len(p.rows) THEN << >>
    ELSE Join(RowText(p.rows[i]), << "\n" >>, BodyText(p, i + 1))

\* the first n elements of a sequence
Take(s, n) == SubSeq(s, 1, Min(n, Len(s)))

\* driver.find_elements(By.CSS_SELECTOR, selector) for the selectors of
\* line 157, by their position in the list: the indexes of the elements
SelectorKinds ==
    << { "tr" }, { "item" }, { "result" }, { "tr" }, { "li" } >>

RowsOf(p, kinds) ==
    IF p.kind \in kinds THEN [ i \in 1..Len(p.rows) |-> i ] ELSE << >>

\* driver.find_elements(By.TAG_NAME, "a"): the anchors in document order,
\* by the index of their element
LinksOf(p) == SelectSeq([ i \in 1..Len(p.rows) |-> i ],
                        LAMBDA i : p.rows[i].a # << >>)

(***************************************************************************)
(* search_pharmacies: what each attempt examines.                          *)
(***************************************************************************)
InSeq(x, s) == \E i \in 1..Len(s) : s[i] = x

\* the loops of lines 168-170, 205-207 and 255-259: every code that is not
\* in the list yet and has 5 characters is appended
RECURSIVE AppendNew(_, _)
AppendNew(ids, codes) ==
    IF codes = << >> THEN ids
    ELSE AppendNew(IF InSeq(Head(codes), ids) \/ Len(Head(codes)) # 5
                   THEN ids ELSE Append(ids, Head(codes)),
                   Tail(codes))

\* lines 162-173: the codes in the texts of the elements idx of the page,
\* in order
RECURSIVE RowCodes(_, _)
RowCodes(p, idx) ==
    IF idx = << >> THEN << >>
    ELSE FindCodes(RowText(p.rows[Head(idx)])) \o RowCodes(p, Tail(idx))

\* lines 158-173 for the selectors from to upto of the list of line 157
RECURSIVE SelectorsCodes(_, _, _)
SelectorsCodes(p, from, upto) ==
    IF from > upto THEN << >>
    ELSE RowCodes(p, Take(RowsOf(p, SelectorKinds[from]), 15))
         \o SelectorsCodes(p, from + 1, upto)

\* line 191: the href names a detail page
IsDetailHref(href) ==
    \E pat \in { << "n", "a", "c", "s", "_", "s", "e", "l", "e", "c", "t",
                    ".", "p", "h", "p" >>, << "p", "h", "a", "r", "m", "a", "c",
                                       "y" >>, << "d", "e", "t", "a", "i",
                                                   "l" >>, << "p", "r", "o", "f", "i",
                                                             "l", "e" >> } :
        IndexOf(href, pat) # 0

\* lines 188-208 for one anchor: the query of its href when it has 5
\* characters, then the codes of its text
LinkCodes(l) ==
    IF ~IsDetailHref(l.href) THEN << >>
    ELSE (IF IndexOf(l.href, << "q", "u", "e", "r", "y", "=" >>) # 0 /\ Len(QueryId(l.href)) = 5
          THEN << QueryId(l.href) >> ELSE << >>)
         \o FindCodes(l.text)

\* lines 186-210 for the anchors of the elements idx
RECURSIVE LinksCodes(_, _)
LinksCodes(p, idx) ==
    IF idx = << >> THEN << >>
    ELSE LinkCodes(p.rows[Head(idx)].a[1]) \o LinksCodes(p, Tail(idx))

\* lines 226-251: the six patterns over the page source, then the bounded
\* pattern over the visible text
AllPotentialCodes(p) ==
    LET src == PageSource(p, 1)
    IN  FindLabelled(src, << "O", "D", "S", " ", "C", "o", "d", "e" >>)
        \o FindLabelled(src, << "C", "o", "d", "e" >>)
        \o FindCtx(src, { "(" }, { ")" })
        \o FindCtx(src, { ">" }, { "<" })
        \o FindCtx(src, { "\"", "'" }, { "\"", "'" })
        \o FindCtx(src, Chars \ UpperSet, Chars \ (UpperSet \cup DigitSet))
        \o FindBounded(BodyText(p, 1))

\* lines 255-258: the candidates that pass the validation of attempt 3
ValidCodes(codes) ==
    SelectSeq(codes, LAMBDA c : /\ Len(c) = 5
                                /\ ReMatchOds(c, FALSE)
                                /\ c \notin Denylist)

\* lines 276-286 for one element: the query of the href of its first anchor
ClickCodes(r) ==
    IF r.a = << >> THEN << >>
    ELSE LET href == r.a[1].href
         IN  IF /\ href # << >>
                /\ IndexOf(href, << "n", "a", "c", "s", "_", "s", "e", "l",
                                    "e", "c", "t", ".", "p", "h", "p" >>) # 0
                /\ IndexOf(href, << "q", "u", "e", "r", "y", "=" >>) # 0
                /\ Len(QueryId(href)) = 5
             THEN << QueryId(href) >> ELSE << >>

\* lines 273-288 for the elements idx
RECURSIVE ClickablesCodes(_, _)
ClickablesCodes(p, idx) ==
    IF idx = << >> THEN << >>
    ELSE ClickCodes(p.rows[Head(idx)]) \o ClickablesCodes(p, Tail(idx))

\* lines 315-319: the codes of the page source that are no listed false
\* positive
JsCodes(src) ==
    SelectSeq(FindCodes(src), LAMBDA c : Len(c) = 5 /\ c \notin Denylist)

\* the pages that the form of the site may show after the script of
\* lines 301-308 has submitted it
ResubmitPages ==
    { [ kind |-> "tr", rows |-> << Plain(<< "C", "o", "d", "e", ":", " ",
                                            "C", "L", "A", "S", "S", " ",
                                            "(", "F", "J", "1", "4", "4",
                                            ")" >>) >> ],
      [ kind |-> "p", rows |-> << >> ] }

(***************************************************************************)
(* search_pharmacies as a state machine: one call on one page.  Every call *)
(* of the driver may raise.  An element whose read raises is skipped by the *)
(* code (lines 172, 209, 287), as if the page did not hold it.             *)
(***************************************************************************)
SpInit ==
    /\ page \in Pages
    /\ sp_pc = "start" /\ sp_pharmacy_ids = << >> /\ sp_ret = << >>
    /\ sp_driver = "none" /\ sp_load = "none"
    /\ seen = [ a \in 1..5 |-> << >> ] /\ producer = 0
    /\ OdsIdle
    /\ HmIdle
    /\ GdIdle
    /\ BotIdle
    /\ PdIdle
    /\ MtIdle
    /\ FxIdle

\* a return statement inside the outer try: the first 5 identifiers are
\* returned and the finally clause of lines 336-340 quits the browser
SpReturn(ids, attempt) ==
    /\ sp_ret' = Take(ids, MaxPharmacies)
    /\ producer' = attempt
    /\ sp_pc' = "done"
    /\ sp_driver' = "quit"

\* an attempt ends without a return: the next one starts
SpGoto(next) ==
    /\ sp_pc' = next
    /\ UNCHANGED << sp_ret, sp_driver, producer >>

\* lines 116-120: the browser starts
SP_Start ==
    /\ sp_pc = "start"
    /\ sp_driver' = "open"
    /\ sp_pc' = "load"
    /\ UNCHANGED << page, sp_pharmacy_ids, sp_ret, sp_load, seen, producer,
                    odsVars, hmVars, gdVars, botVars, fxVars, mtVars, pdVars
                    >>

\* a variant in which the exception of the start leaves the call
SP_StartFail_escapes ==
    /\ sp_pc = "start"
    /\ sp_pc' = "raised"
    /\ UNCHANGED << page, sp_pharmacy_ids, sp_ret, sp_driver, sp_load, seen,
                    producer, odsVars, hmVars, gdVars, botVars, fxVars,
                    mtVars, pdVars >>

\* lines 116, 333-340: the browser does not start, the call returns []
SP_StartFail ==
    /\ sp_pc = "start"
    /\ sp_ret' = << >>
    /\ sp_pc' = "done"
    /\ UNCHANGED << page, sp_pharmacy_ids, sp_driver, sp_load, seen, producer,
                    odsVars, hmVars, gdVars, botVars, fxVars, mtVars, pdVars
                    >>

\* lines 123-151: the page is loaded, or the load times out, or it raises;
\* the call goes on with what the browser holds in each case
SP_Load ==
    /\ sp_pc = "load"
    /\ \E outcome \in { "ok", "timeout", "error" } : sp_load' = outcome
    /\ sp_pc' = "rows"
    /\ UNCHANGED << page, sp_pharmacy_ids, sp_ret, sp_driver, seen, producer,
                    odsVars, hmVars, gdVars, botVars, fxVars, mtVars, pdVars
                    >>

\* lines 153-177, ATTEMPT 1: the codes in the texts of the elements found
\* by the five selectors
SP_Rows ==
    /\ sp_pc = "rows"
    /\ LET codes == SelectorsCodes(page, 1, 5)
           ids   == AppendNew(<< >>, codes)
       IN  /\ seen' = [ seen EXCEPT ![1] = codes ]
           /\ sp_pharmacy_ids' = ids
           /\ IF ids # << >> THEN SpReturn(ids, 1) ELSE SpGoto("links")
    /\ UNCHANGED << page, sp_load, odsVars, hmVars, gdVars, botVars, fxVars,
                    mtVars, pdVars >>

\* lines 159, 178-179: find_elements raises for the selector failAt, after
\* the selectors before it have been processed
SP_RowsRaise ==
    /\ sp_pc = "rows"
    /\ \E failAt \in 1..5 :
         LET codes == SelectorsCodes(page, 1, failAt - 1)
         IN  /\ seen' = [ seen EXCEPT ![1] = codes ]
             /\ sp_pharmacy_ids' = AppendNew(<< >>, codes)
    /\ SpGoto("links")
    /\ UNCHANGED << page, sp_load, odsVars, hmVars, gdVars, botVars, fxVars,
                    mtVars, pdVars >>

\* lines 181-214, ATTEMPT 2: the queries and the texts of the detail links
SP_Links ==
    /\ sp_pc = "links"
    /\ LET codes == LinksCodes(page, LinksOf(page))
           ids   == AppendNew(sp_pharmacy_ids, codes)
       IN  /\ seen' = [ seen EXCEPT ![2] = codes ]
           /\ sp_pharmacy_ids' = ids
           /\ IF ids # << >> THEN SpReturn(ids, 2) ELSE SpGoto("scan")
    /\ UNCHANGED << page, sp_load, odsVars, hmVars, gdVars, botVars, fxVars,
                    mtVars, pdVars >>

\* lines 183, 216-217: find_elements raises
SP_LinksRaise ==
    /\ sp_pc = "links"
    /\ SpGoto("scan")
    /\ UNCHANGED << page, sp_pharmacy_ids, sp_load, seen, odsVars, hmVars,
                    gdVars, botVars, fxVars, mtVars, pdVars >>

\* lines 219-263, ATTEMPT 3: the codes of the whole page, validated, in a
\* list of their own
SP_Scan ==
    /\ sp_pc = "scan"
    /\ LET codes        == ValidCodes(AllPotentialCodes(page))
           unique_codes == AppendNew(<< >>, codes)
       IN  /\ seen' = [ seen EXCEPT ![3] = codes ]
           /\ IF unique_codes # << >> THEN SpReturn(unique_codes, 3)
              ELSE SpGoto("click")
    /\ UNCHANGED << page, sp_pharmacy_ids, sp_load, odsVars, hmVars, gdVars,
                    botVars, fxVars, mtVars, pdVars >>

\* lines 222, 242, 265-266: reading the page source or the body raises
SP_ScanRaise ==
    /\ sp_pc = "scan"
    /\ SpGoto("click")
    /\ UNCHANGED << page, sp_pharmacy_ids, sp_load, seen, odsVars, hmVars,
                    gdVars, botVars, fxVars, mtVars, pdVars >>

\* lines 268-292, ATTEMPT 4: the queries of the first anchors of the rows
SP_Click ==
    /\ sp_pc = "click"
    /\ LET rows  == Take(RowsOf(page, { "tr", "li", "item" }), 10)
           codes == ClickablesCodes(page, rows)
           ids   == AppendNew(sp_pharmacy_ids, codes)
       IN  /\ seen' = [ seen EXCEPT ![4] = codes ]
           /\ sp_pharmacy_ids' = ids
           /\ IF ids # << >> THEN SpReturn(ids, 4) ELSE SpGoto("js")
    /\ UNCHANGED << page, sp_load, odsVars, hmVars, gdVars, botVars, fxVars,
                    mtVars, pdVars >>

\* lines 273, 294-295: find_elements raises
SP_ClickRaise ==
    /\ sp_pc = "click"
    /\ SpGoto("js")
    /\ UNCHANGED << page, sp_pharmacy_ids, sp_load, seen, odsVars, hmVars,
                    gdVars, botVars, fxVars, mtVars, pdVars >>

\* lines 297-331, ATTEMPT 5: the search form is submitted by a script, the
\* browser shows the same page or the answer of the form, and the codes of
\* its source are returned; without codes the call returns []
SP_Js ==
    /\ sp_pc = "js"
    /\ \E shown \in { page } \cup ResubmitPages :
         LET codes        == JsCodes(PageSource(shown, 1))
             unique_codes == AppendNew(<< >>, codes)
         IN  /\ page' = shown
             /\ seen' = [ seen EXCEPT ![5] = codes ]
             /\ IF unique_codes # << >> THEN SpReturn(unique_codes, 5)
                ELSE SpReturn(<< >>, 0)
    /\ UNCHANGED << sp_pharmacy_ids, sp_load, odsVars, hmVars, gdVars,
                    botVars, fxVars, mtVars, pdVars >>

\* lines 301-314, 326-331: the script, the wait or the page source raises,
\* the call returns []
SP_JsRaise ==
    /\ sp_pc = "js"
    /\ SpReturn(<< >>, 0)
    /\ UNCHANGED << page, sp_pharmacy_ids, sp_load, seen, odsVars, hmVars,
                    gdVars, botVars, fxVars, mtVars, pdVars >>

SpNext ==
    \/ SP_Start
    \/ SP_StartFail
    \/ SP_Load
    \/ SP_Rows
    \/ SP_RowsRaise
    \/ SP_Links
    \/ SP_LinksRaise
    \/ SP_Scan
    \/ SP_ScanRaise
    \/ SP_Click
    \/ SP_ClickRaise
    \/ SP_Js
    \/ SP_JsRaise

SpecSearch == SpInit /\ [][SpNext]_vars

(***************************************************************************)
(* Properties of search_pharmacies.                                        *)
(***************************************************************************)
\* the call has returned a list built by one of its attempts
SpProduced == sp_pc = "done" /\ producer # 0

NoDuplicate(s) == \A i, j \in 1..Len(s) : s[i] = s[j] => i = j

\* the elements of s in the order of their first occurrence
RECURSIVE FirstSeen(_)
FirstSeen(s) ==
    IF s = << >> THEN << >>
    ELSE LET init == FirstSeen(SubSeq(s, 1, Len(s) - 1))
         IN  IF InSeq(s[Len(s)], init) THEN init ELSE Append(init, s[Len(s)])

(* C3: the list returned by search_pharmacies has no duplicate, at most 5  *)
(* entries, and is the prefix of length at most 5 of the sequence in which *)
(* the strategy that produced it first saw its identifiers.                *)
C3_ReturnedListFirstSeen ==
    SpProduced =>
        /\ NoDuplicate(sp_ret)
        /\ Len(sp_ret) <= 5
        /\ sp_ret = Take(FirstSeen(seen[producer]), 5)

(* C18: the list search_pharmacies returns is the result of one strategy,  *)
(* the first one in the order rows, links, page scan, (clickables,)        *)
(* re-submission that yields identifiers: every identifier of the returned *)
(* list was seen by the strategy that returned it, also when a strategy    *)
(* before it ended in an exception after it had found identifiers.         *)
C18_FirstStrategyAlone ==
    SpProduced =>
        \A i \in 1..Len(sp_ret) : InSeq(sp_ret[i], seen[producer])

(* C19: every identifier of the list search_pharmacies returns is a valid  *)
(* pharmacy code: 5 characters, an upper-case letter followed by four      *)
(* upper-case letters or digits, and none of CLASS, WIDTH, HTTPS.          *)
C19_ReturnedIdsValid ==
    sp_pc = "done" =>
        \A i \in 1..Len(sp_ret) :
            /\ Len(sp_ret[i]) = 5
            /\ IsCodeAt(sp_ret[i], 1)
            /\ sp_ret[i] \notin Denylist

(***************************************************************************)
(* get_pharmacy_details: the regular expressions.  re.search reports the   *)
(* match at the leftmost position where the pattern matches.               *)
(***************************************************************************)
\* the leftmost position of s where hit holds, 0 when there is none
FirstPos(s, hit(_)) ==
    LET at == SelectSeq(Positions(s), hit)
    IN  IF at = << >> THEN 0 ELSE at[1]

\* the end of the longest run of characters of set that starts at position
\* i of s; i - 1 when the run is empty
RunEnd(s, i, set) ==
    CHOOSE e \in (i - 1)..Len(s) :
        /\ \A k \in i..e : s[k] \in set
        /\ (e = Len(s) \/ s[e + 1] \notin set)

\* the start of the longest run of characters of set that ends at position
\* i of s; i + 1 when the run is empty
RunStart(s, i, set) ==
    CHOOSE b \in 1..(i + 1) :
        /\ \A k \in b..i : s[k] \in set
        /\ (b = 1 \/ s[b - 1] \notin set)

\* re.sub(r'\s*\([A-Z0-9]+\)\s*$', '', name) for a name without white
\* space at its ends: a last parenthesised code goes, with the space
\* before it
StripParenSuffix(name) ==
    IF Len(name) >= 3 /\ name[Len(name)] = ")"
    THEN LET b == RunStart(name, Len(name) - 1, UpperSet \cup DigitSet)
         IN  IF b <= Len(name) - 1 /\ b >= 2 /\ name[b - 1] = "("
             THEN SubSeq(name, 1, RunStart(name, b - 2, WhiteSet) - 1)
             ELSE name
    ELSE name

\* [A-Za-z0-9\s&]
NameCh == UpperSet \cup LowerSet \cup DigitSet \cup WhiteSet \cup { "&" }

\* \bPharmacy\b at position k of s, k > 1
PharmacyWordAt(s, k) ==
    /\ LitAt(s, k, << "P", "h", "a", "r", "m", "a", "c", "y" >>)
    /\ s[k - 1] \notin WordCh
    /\ (k + 8 > Len(s) \/ s[k + 8] \notin WordCh)

\* lit, white space and Pharmacy at position i: the end of the match, or 0
SpacedPharmacyEnd(s, i, lit) ==
    LET w == RunEnd(s, i + Len(lit), WhiteSet)
    IN  IF /\ LitAt(s, i, lit) /\ w >= i + Len(lit)
           /\ LitAt(s, w + 1, << "P", "h", "a", "r", "m", "a", "c", "y" >>)
        THEN w + 8 ELSE 0

\* the pattern of lines 410 and 587 at position i of s: the end of the
\* match, or 0.  The first alternative takes the longest run that ends in
\* the word Pharmacy.
NameEndAt(s, i) ==
    LET e  == RunEnd(s, i, NameCh)
        ks == { k \in (i + 1)..(e - 7) : PharmacyWordAt(s, k) }
    IN  IF ks # { } THEN (CHOOSE k \in ks : \A m \in ks : m <= k) + 7
        ELSE IF LitAt(s, i, << "B", "o", "o", "t", "s" >>) THEN i + 4
        ELSE IF SpacedPharmacyEnd(s, i, << "L", "l", "o", "y", "d", "s" >>) # 0
             THEN SpacedPharmacyEnd(s, i, << "L", "l", "o", "y", "d", "s" >>)
        ELSE IF SpacedPharmacyEnd(s, i, << "A", "S", "D", "A" >>) # 0
             THEN SpacedPharmacyEnd(s, i, << "A", "S", "D", "A" >>)
        ELSE IF LitAt(s, i, << "S", "u", "p", "e", "r", "d", "r", "u", "g" >>) THEN i + 8
        ELSE 0

\* name_match.group(0) of lines 410-411 and 587-588; << >> for no match
NameMatch(s) ==
    LET i == FirstPos(s, LAMBDA k : NameEndAt(s, k) # 0)
    IN  IF i = 0 THEN << >> ELSE SubSeq(s, i, NameEndAt(s, i))

\* the pattern of lines 439 and 591 at position i of s, with n letters and
\* opt optional characters: the end of the match, or 0
PostcodeEndWith(s, i, n, opt) ==
    IF i + n + opt + 3 > Len(s) THEN 0
    ELSE LET d == i + n
             w == RunEnd(s, d + 1 + opt, WhiteSet)
         IN  IF /\ (i = 1 \/ s[i - 1] \notin WordCh)
                /\ w + 3 <= Len(s)
                /\ \A k \in i..(d - 1) : s[k] \in UpperSet
                /\ s[d] \in DigitSet
                /\ (opt = 1 => s[d + 1] \in UpperSet \cup DigitSet)
                /\ s[w + 1] \in DigitSet
                /\ s[w + 2] \in UpperSet /\ s[w + 3] \in UpperSet
                /\ (w + 4 > Len(s) \/ s[w + 4] \notin WordCh)
             THEN w + 3 ELSE 0

\* the greedy choices of the pattern in the order in which re tries them
PostcodeEndAt(s, i) ==
    IF PostcodeEndWith(s, i, 2, 1) # 0 THEN PostcodeEndWith(s, i, 2, 1)
    ELSE IF PostcodeEndWith(s, i, 2, 0) # 0 THEN PostcodeEndWith(s, i, 2, 0)
    ELSE IF PostcodeEndWith(s, i, 1, 1) # 0 THEN PostcodeEndWith(s, i, 1, 1)
    ELSE PostcodeEndWith(s, i, 1, 0)

\* postcode_match.group(0) of lines 440 and 592; << >> for no match
PostcodeMatch(s) ==
    LET i == FirstPos(s, LAMBDA k : PostcodeEndAt(s, k) # 0)
    IN  IF i = 0 THEN << >> ELSE SubSeq(s, i, PostcodeEndAt(s, i))

\* [0-9,\.]
NumberCh == DigitSet \cup { ",", "." }

\* a metric pattern with the label lit at position i of s: the label, any
\* colons and white space, and the longest run of value characters, which
\* a percent sign follows when pct; the positions of the value, or << >>
MetricAtWith(s, i, lit, pct) ==
    IF ~LitAt(s, i, lit) THEN << >>
    ELSE LET j == SkipColonSpace(s, i + Len(lit))
             e == RunEnd(s, j, IF pct THEN DigitSet ELSE NumberCh)
         IN  IF e < j THEN << >>
             ELSE IF ~pct THEN << j, e >>
             ELSE IF e + 1 <= Len(s) /\ s[e + 1] = "%" THEN << j, e + 1 >>
             ELSE << >>

\* group(1) of re.search of a metric pattern of lines 450-500 whose labels
\* are tried in the order of the sequence labels; << >> for no match
MetricValue(s, labels, pct) ==
    LET ok(i, n) == MetricAtWith(s, i, labels[n], pct) # << >>
        i0 == FirstPos(s, LAMBDA i : \E n \in 1..Len(labels) : ok(i, n))
    IN  IF i0 = 0 THEN << >>
        ELSE LET n0 == CHOOSE n \in 1..Len(labels) :
                           ok(i0, n) /\ \A m \in 1..(n - 1) : ~ok(i0, m)
                 at == MetricAtWith(s, i0, labels[n0], pct)
             IN  SubSeq(s, at[1], at[2])

\* the metrics of the record, their labels and their defaults
Metrics == { "items", "forms", "cpcs", "pharmacy_first", "nms", "eps" }

MetricLabels(m) ==
    CASE m = "items"          -> << << "I", "t", "e", "m", "s" >>, << "I", "t", "e", "m", "s", " ",
                                                "D", "i", "s", "p", "e", "n",
                                                "s", "e", "d" >> >>
      [] m = "forms"          -> << << "F", "o", "r", "m", "s" >>, << "P", "r", "e", "s", "c", "r",
                                                "i", "p", "t", "i", "o", "n",
                                                "s" >> >>
      [] m = "cpcs"           -> << << "C", "P", "C", "S" >> >>
      [] m = "pharmacy_first" -> << << "P", "h", "a", "r", "m", "a", "c",
                                       "y", " ", "F", "i", "r", "s", "t" >>, << "P", "F" >> >>
      [] m = "nms"            -> << << "N", "M", "S" >> >>
      [] m = "eps"            -> << << "E", "P", "S" >>, << "E", "P", "S", " ", "T", "a",
                                              "k", "e", "u", "p" >>, << "E", "P", "S", " ", "N",
                                                            "o", "m", "i",
                                                            "n", "a", "t",
                                                            "i", "o", "n",
                                                            "s" >> >>

MetricDefault(m) == IF m = "eps" THEN << "0", "%" >> ELSE << "0" >>

\* a variant that has no default: nothing when the pattern has no match
ExtractMetric_nodefault(page_text, m) ==
    MetricValue(page_text, MetricLabels(m), m = "eps")

\* lines 447-505 for one metric: the value found in the text, or the
\* default
ExtractMetric(page_text, m) ==
    LET v == MetricValue(page_text, MetricLabels(m), m = "eps")
    IN  IF v = << >> THEN MetricDefault(m) ELSE v

\* the position of the first line feed of s at or after position j,
\* Len(s) + 1 when there is none
LineEnd(s, j) ==
    CHOOSE e \in j..(Len(s) + 1) :
        /\ \A k \in j..(e - 1) : s[k] # "\n"
        /\ (e = Len(s) + 1 \/ s[e] = "\n")

\* lines 422-425: the rest of the line after the address label, stripped;
\* hit tells whether the pattern matched
AddressLabelled(s) ==
    LET hit(i) == /\ \E lit \in { << "A", "D", "D", "R", "E", "S", "S" >>, << "A", "d", "d", "r", "e", "s",
                                                "s" >>, << "a", "d", "d", "r", "e",
                                                           "s", "s" >> } :
                       LitAt(s, i, lit)
                  /\ SkipColonSpace(s, i + 7) > i + 7
        i0 == FirstPos(s, hit)
        j  == SkipColonSpace(s, i0 + 7)
    IN  IF i0 = 0 THEN [ hit |-> FALSE, text |-> << >> ]
        ELSE [ hit |-> TRUE,
               text |-> StrStrip(SubSeq(s, j, LineEnd(s, j) - 1)) ]

\* [^,\n]
SegmentCh == Chars \ { ",", "\n" }

\* the end of the longest text [^,\n]+(?:,[^,\n]+)* that starts at e0 + 1
\* after n segments have been taken, and the number of its segments
RECURSIVE Segments(_, _, _)
Segments(s, e0, n) ==
    LET start == IF n = 0 THEN e0 + 1 ELSE e0 + 2
        e     == RunEnd(s, start, SegmentCh)
    IN  IF /\ start <= Len(s) /\ (n = 0 \/ s[e0 + 1] = ",") /\ e >= start
        THEN Segments(s, e, n + 1)
        ELSE [ end |-> e0, n |-> n ]

\* lines 431-434: after the first occurrence of the name from which the
\* pattern matches, on the same line, the first text of three or more
\* comma-separated segments, stripped
AddressNearName(s, name) ==
    LET after(i) == i + Len(name)
        at(i)    == name = << >> \/ LitAt(s, i, name)
        found(j) == Segments(s, j - 1, 0).n >= 3
        hit(i)   == at(i) /\ \E j \in after(i)..LineEnd(s, after(i)) : found(j)
        i0 == FirstPos(s, hit)
    IN  IF i0 = 0 THEN [ hit |-> FALSE, text |-> << >> ]
        ELSE LET j == CHOOSE j \in after(i0)..LineEnd(s, after(i0)) :
                          found(j) /\ \A k \in after(i0)..(j - 1) : ~found(k)
             IN  [ hit |-> TRUE,
                   text |-> StrStrip(SubSeq(s, j, Segments(s, j - 1, 0).end)) ]

\* lines 421-436: the address of the record
ExtractAddress(page_text, name) ==
    IF AddressLabelled(page_text).hit THEN AddressLabelled(page_text).text
    ELSE IF AddressNearName(page_text, name).hit
         THEN AddressNearName(page_text, name).text
         ELSE << "A", "d", "d", "r", "e", "s", "s", " ", "n", "o", "t", " ",
                 "f", "o", "u", "n", "d" >>

\* lines 547-560 and 596-608: the identifier of the record
ProperOdsCode(pharmacy_id_arg, page_text) ==
    IF ReMatchOds(pharmacy_id_arg, FALSE) THEN pharmacy_id_arg
    ELSE LET codes == SelectSeq(FindBounded(page_text),
                                LAMBDA c : /\ c \notin Denylist
                                           /\ ReMatchOds(c, FALSE))
         IN  IF codes = << >> THEN pharmacy_id_arg ELSE codes[1]

\* a variant that looks for the markers in lower case only
NotFoundGate_casesensitive(page_source) ==
    \/ StrContains(page_source, << "n", "o", "t", " ", "f", "o", "u", "n",
                                   "d" >>)
    \/ StrContains(page_source, << "n", "o", " ", "r", "e", "s", "u", "l",
                                   "t", "s" >>)

\* line 374: the page source holds one of the markers, in any casing
NotFoundGate(page_source) ==
    \/ StrContains(StrLower(page_source), << "n", "o", "t", " ", "f", "o",
                                             "u", "n", "d" >>)
    \/ StrContains(StrLower(page_source), << "n", "o", " ", "r", "e", "s",
                                             "u", "l", "t", "s" >>)

(***************************************************************************)
(* get_pharmacy_details: the detail page in the browser.  A page has at    *)
(* most one heading, one title element of class panel-title, one address   *)
(* line, one line for each metric it shows, and one closing paragraph.     *)
(***************************************************************************)
HeadingTexts ==
    { << >>, << "B", "o", "o", "t", "s", " ", "P", "h", "a", "r", "m", "a",
                "c", "y", " ", "(", "F", "J", "1", "4", "4", ")" >>, << "(", "P", "H", "A", "R", "M", "A",
                                          "C", "Y", ")" >>, << "O", "p", "e", "n", "i",
                                                        "n", "g", " ", "h",
                                                        "o", "u", "r",
                                                        "s" >> }

TitleTexts == { << >>, << "D", "a", "y", " ", "L", "e", "w", "i", "s", " ",
                          "P", "h", "a", "r", "m", "a", "c", "y" >>, << "(", "F", "J", "1", "4", "4",
                                                ")" >> }

AddressLines == { << >>, << "A", "d", "d", "r", "e", "s", "s", ":", " ", "1",
                            " ", "H", "i", "g", "h", " ", "S", "t", ",", " ",
                            "L", "e", "e", "d", "s", " ", "L", "S", "1", " ",
                            "4", "A", "P" >> }

Markers ==
    { << >>, << "P", "h", "a", "r", "m", "a", "c", "y", " ", "N", "o", "t",
                " ", "F", "o", "u", "n", "d" >>, << "N", "O", " ", "R", "E", "S", "U", "L",
                                      "T", "S" >>, << "n", "o", " ", "r", "e",
                                                    "s", "u", "l", "t", "s",
                                                    " ", "f", "o", "u", "n",
                                                    "d" >> }

\* the value that the page shows for a metric
MetricShown(m) ==
    CASE m = "items"          -> << "1", ",", "2", "3", "4" >>
      [] m = "forms"          -> << "5", "6" >>
      [] m = "cpcs"           -> << "7" >>
      [] m = "pharmacy_first" -> << "8" >>
      [] m = "nms"            -> << "9" >>
      [] m = "eps"            -> << "9", "5", "%" >>

\* the line of the page that shows a metric
MetricLine(m) ==
    CASE m = "items"          -> << "I", "t", "e", "m", "s", " ", "D", "i",
                                    "s", "p", "e", "n", "s", "e", "d", ":",
                                    " " >> \o MetricShown(m) \o << " ", "(", "#", "1", "2",
                                                                             ")" >>
      [] m = "forms"          -> << "F", "o", "r", "m", "s", ":", " " >> \o MetricShown(m)
      [] m = "cpcs"           -> << "C", "P", "C", "S", " " >> \o MetricShown(m)
      [] m = "pharmacy_first" -> << "P", "h", "a", "r", "m", "a", "c", "y",
                                    " ", "F", "i", "r", "s", "t", ":",
                                    " " >> \o MetricShown(m) \o << " ", "(", "#", "4",
                                                                            ")" >>
      [] m = "nms"            -> << "N", "M", "S", ":", " " >> \o MetricShown(m)
      [] m = "eps"            -> << "E", "P", "S", " ", "T", "a", "k", "e",
                                    "u", "p", ":", " " >> \o MetricShown(m) \o << " ", "(", "#", "3",
                                                                        ")" >>

\* the pages show no metric, one metric, all but one, or all
MetricSets ==
    { ms \in SUBSET Metrics : Cardinality(ms) \notin 2..4 }

DetailPages ==
    [ h : HeadingTexts, title : TitleTexts, addr : AddressLines,
      metrics : MetricSets, marker : Markers ]

\* the identifier passed to the call: a code, and a text that is none
DetailIds == { << "F", "J", "1", "4", "4" >>, << "f", "j", "1", "4", "4" >> }

MetricOrder == << "items", "forms", "cpcs", "pharmacy_first", "nms", "eps" >>

\* the lines of the metrics that the page shows, from position i of
\* MetricOrder on
RECURSIVE MetricLines(_, _)
MetricLines(p, i) ==
    IF i > Len(MetricOrder) THEN << >>
    ELSE Join(IF MetricOrder[i] \in p.metrics
              THEN MetricLine(MetricOrder[i]) ELSE << >>,
              << "\n" >>, MetricLines(p, i + 1))

\* driver.find_element(By.TAG_NAME, "body").text
DetailText(p) ==
    Join(p.h, << "\n" >>,
         Join(p.title, << "\n" >>,
              Join(p.addr, << "\n" >>, Join(MetricLines(p, 1), << "\n" >>, p.marker))))

\* text inside the tags open and close, nothing for no text
Tagged(open, text, close) ==
    IF text = << >> THEN << >> ELSE open \o text \o close

\* driver.page_source
DetailSource(p) ==
    << "<", "h", "t", "m", "l", ">", "<", "b", "o", "d", "y", ">" >>
        \o Tagged(<< "<", "h", "2", ">" >>, p.h, << "<", "/", "h", "2", ">" >>)
        \o Tagged(<< "<", "d", "i", "v", " ", "c", "l", "a", "s", "s", "=",
                     "\"", "p", "a", "n", "e", "l", "-", "t", "i", "t", "l",
                     "e", "\"", ">" >>, p.title, << "<", "/", "d", "i", "v",
                                                           ">" >>)
        \o Tagged(<< "<", "p", ">" >>, p.addr, << "<", "/", "p", ">" >>)
        \o Tagged(<< "<", "p", "r", "e", ">" >>, MetricLines(p, 1), << "<", "/", "p", "r", "e",
                                                 ">" >>)
        \o Tagged(<< "<", "p", ">" >>, p.marker, << "<", "/", "p", ">" >>)
        \o << "<", "/", "b", "o", "d", "y", ">", "<", "/", "h", "t", "m",
              "l", ">" >>

\* f"Pharmacy {pharmacy_id}"
SyntheticName(id) == << "P", "h", "a", "r", "m", "a", "c", "y", " " >> \o id

\* lines 382-411: the name from the heading, else from the title element,
\* else from the text of the page, else made from the identifier
ExtractName(p, id) ==
    LET text  == StrStrip(p.h)
        title == StrStrip(p.title)
    IN  IF text # << >> /\ StrContains(StrLower(text), << "p", "h", "a", "r", "m",
                                                          "a", "c", "y" >>)
        THEN StripParenSuffix(text)
        ELSE IF title # << >> THEN StripParenSuffix(title)
        ELSE IF NameMatch(DetailText(p)) # << >> THEN NameMatch(DetailText(p))
        ELSE SyntheticName(id)

\* lines 587-588: the name of the fallback pass
FallbackName(p, id) ==
    IF NameMatch(DetailText(p)) # << >> THEN NameMatch(DetailText(p))
    ELSE SyntheticName(id)

\* lines 440-441 and 592-593
ExtractPostcode(page_text) ==
    IF PostcodeMatch(page_text) # << >> THEN PostcodeMatch(page_text)
    ELSE << "N", "/", "A" >>

(***************************************************************************)
(* get_pharmacy_details as a state machine: one call on one page.  Every   *)
(* call of the driver may raise.                                           *)
(***************************************************************************)
GdInit ==
    /\ gd_page \in DetailPages
    /\ gd_id \in DetailIds
    /\ gd_pc = "start" /\ pharmacy_name = << >> /\ gd_ret = NoRecord
    /\ gd_driver = "none" /\ gd_load = "none" /\ gd_gate = "none"
    /\ gd_pass = "none" /\ extracted = { }
    /\ OdsIdle
    /\ HmIdle
    /\ SpIdle
    /\ BotIdle
    /\ PdIdle
    /\ MtIdle
    /\ FxIdle

\* a variant of the return that leaves the browser as it is
GdReturn_noquit(rec) ==
    /\ gd_ret' = rec
    /\ gd_pc' = "done"
    /\ UNCHANGED gd_driver

\* a return statement inside the outer try: the finally clause of lines
\* 630-634 quits the browser
GdReturn(rec) ==
    /\ gd_ret' = rec
    /\ gd_pc' = "done"
    /\ gd_driver' = "quit"

\* lines 354-358: the browser starts
GD_Start ==
    /\ gd_pc = "start"
    /\ gd_driver' = "open"
    /\ gd_pc' = "load"
    /\ UNCHANGED << gd_id, gd_page, pharmacy_name, gd_ret, gd_load, gd_gate,
                    gd_pass, extracted, odsVars, hmVars, spVars, botVars,
                    fxVars, mtVars, pdVars >>

\* lines 354, 627-634: the browser does not start, the call returns None
GD_StartFail ==
    /\ gd_pc = "start"
    /\ gd_ret' = NoRecord
    /\ gd_pc' = "done"
    /\ UNCHANGED << gd_id, gd_page, pharmacy_name, gd_driver, gd_load,
                    gd_gate, gd_pass, extracted, odsVars, hmVars, spVars,
                    botVars, fxVars, mtVars, pdVars >>

\* a variant of the load in which a timeout ends the call with None
GD_Load_timeoutfatal ==
    /\ gd_pc = "load"
    /\ \E outcome \in { "ok", "timeout" } :
         /\ gd_load' = outcome
         /\ IF outcome = "timeout" THEN GdReturn(NoRecord)
            ELSE gd_pc' = "gate" /\ UNCHANGED << gd_ret, gd_driver >>
    /\ UNCHANGED << gd_id, gd_page, pharmacy_name, gd_gate, gd_pass,
                    extracted, odsVars, hmVars, spVars, botVars, fxVars,
                    mtVars, pdVars >>

\* lines 364-370: the page is loaded, or the load times out and the call
\* goes on with what the browser holds
GD_Load ==
    /\ gd_pc = "load"
    /\ \E outcome \in { "ok", "timeout" } : gd_load' = outcome
    /\ gd_pc' = "gate"
    /\ UNCHANGED << gd_id, gd_page, pharmacy_name, gd_ret, gd_driver, gd_gate,
                    gd_pass, extracted, odsVars, hmVars, spVars, botVars,
                    fxVars, mtVars, pdVars >>

\* lines 365, 627-629: the load raises another exception than a timeout,
\* the call returns None
GD_LoadRaise ==
    /\ gd_pc = "load"
    /\ gd_load' = "error"
    /\ GdReturn(NoRecord)
    /\ UNCHANGED << gd_id, gd_page, pharmacy_name, gd_gate, gd_pass,
                    extracted, odsVars, hmVars, spVars, botVars, fxVars,
                    mtVars, pdVars >>

\* lines 372-376: a page that holds a marker is no pharmacy, the call
\* returns None
GD_Gate ==
    /\ gd_pc = "gate"
    /\ IF NotFoundGate(DetailSource(gd_page))
       THEN gd_gate' = "refused" /\ GdReturn(NoRecord)
       ELSE /\ gd_gate' = "passed" /\ gd_pc' = "name"
            /\ UNCHANGED << gd_ret, gd_driver >>
    /\ UNCHANGED << gd_id, gd_page, pharmacy_name, gd_load, gd_pass,
                    extracted, odsVars, hmVars, spVars, botVars, fxVars,
                    mtVars, pdVars >>

\* lines 373, 627-629: reading the page source raises
GD_GateRaise ==
    /\ gd_pc = "gate"
    /\ GdReturn(NoRecord)
    /\ UNCHANGED << gd_id, gd_page, pharmacy_name, gd_load, gd_gate, gd_pass,
                    extracted, odsVars, hmVars, spVars, botVars, fxVars,
                    mtVars, pdVars >>

\* lines 380-412: the name
GD_Name ==
    /\ gd_pc = "name"
    /\ pharmacy_name' = ExtractName(gd_page, gd_id)
    /\ extracted' = extracted \cup { "name" }
    /\ gd_pc' = "fields"
    /\ UNCHANGED << gd_id, gd_page, gd_ret, gd_driver, gd_load, gd_gate,
                    gd_pass, odsVars, hmVars, spVars, botVars, fxVars, mtVars,
                    pdVars >>

\* lines 383, 409, 413-415: a call of the driver raises while the name is
\* looked for, the name is made from the identifier
GD_NameRaise ==
    /\ gd_pc = "name"
    /\ pharmacy_name' = SyntheticName(gd_id)
    /\ gd_pc' = "fields"
    /\ UNCHANGED << gd_id, gd_page, gd_ret, gd_driver, gd_load, gd_gate,
                    gd_pass, extracted, odsVars, hmVars, spVars, botVars,
                    fxVars, mtVars, pdVars >>

\* lines 418-576: address, postcode, the six metrics and the identifier
\* are taken from the text of the page, the record is returned
GD_Fields ==
    /\ gd_pc = "fields"
    /\ LET page_text == DetailText(gd_page)
       IN  GdReturn(Record(ProperOdsCode(gd_id, page_text),
                           pharmacy_name,
                           ExtractAddress(page_text, pharmacy_name),
                           ExtractPostcode(page_text),
                           [ m \in Metrics |-> ExtractMetric(page_text, m) ]))
    /\ extracted' = extracted \cup { "address", "postcode" } \cup Metrics
    /\ gd_pass' = "primary"
    /\ UNCHANGED << gd_id, gd_page, pharmacy_name, gd_load, gd_gate, odsVars,
                    hmVars, spVars, botVars, fxVars, mtVars, pdVars >>

\* a variant in which an exception of the primary pass ends the call with
\* None, without a fallback pass
GD_FieldsRaise_fatal ==
    /\ gd_pc = "fields"
    /\ GdReturn(NoRecord)
    /\ UNCHANGED << gd_id, gd_page, pharmacy_name, gd_load, gd_gate, gd_pass,
                    extracted, odsVars, hmVars, spVars, botVars, fxVars,
                    mtVars, pdVars >>

\* lines 418, 550, 578-579: reading the text of the page raises
GD_FieldsRaise ==
    /\ gd_pc = "fields"
    /\ gd_pc' = "fallback"
    /\ UNCHANGED << gd_id, gd_page, pharmacy_name, gd_ret, gd_driver, gd_load,
                    gd_gate, gd_pass, extracted, odsVars, hmVars, spVars,
                    botVars, fxVars, mtVars, pdVars >>

\* lines 582-622: the fallback pass takes name, postcode and identifier
\* from the text of the page and returns them with the defaults
GD_Fallback ==
    /\ gd_pc = "fallback"
    /\ LET page_text == DetailText(gd_page)
       IN  /\ pharmacy_name' = FallbackName(gd_page, gd_id)
           /\ GdReturn(Record(ProperOdsCode(gd_id, page_text),
                              FallbackName(gd_page, gd_id),
                              << "A", "d", "d", "r", "e", "s", "s", " ", "n",
                                 "o", "t", " ", "f", "o", "u", "n", "d" >>,
                              ExtractPostcode(page_text),
                              [ m \in Metrics |-> MetricDefault(m) ]))
    /\ extracted' = extracted \cup { "name", "postcode" }
    /\ gd_pass' = "fallback"
    /\ UNCHANGED << gd_id, gd_page, gd_load, gd_gate, odsVars, hmVars, spVars,
                    botVars, fxVars, mtVars, pdVars >>

\* lines 584, 623-625: reading the text of the page raises again, the call
\* returns None
GD_FallbackRaise ==
    /\ gd_pc = "fallback"
    /\ GdReturn(NoRecord)
    /\ gd_pass' = "failed"
    /\ UNCHANGED << gd_id, gd_page, pharmacy_name, gd_load, gd_gate,
                    extracted, odsVars, hmVars, spVars, botVars, fxVars,
                    mtVars, pdVars >>

GdNext ==
    \/ GD_Start
    \/ GD_StartFail
    \/ GD_Load
    \/ GD_LoadRaise
    \/ GD_Gate
    \/ GD_GateRaise
    \/ GD_Name
    \/ GD_NameRaise
    \/ GD_Fields
    \/ GD_FieldsRaise
    \/ GD_Fallback
    \/ GD_FallbackRaise

SpecDetail == GdInit /\ [][GdNext]_vars

(***************************************************************************)
(* Properties of get_pharmacy_details.                                     *)
(***************************************************************************)
\* the call has returned and the validity gate had let the page through
GatePassed == gd_pc = "done" /\ gd_gate = "passed"

\* what the page shows: the name in its heading or, when the heading names
\* no pharmacy, in its title element; the postcode in its address line
ShownName(p) ==
    IF p.h = << "B", "o", "o", "t", "s", " ", "P", "h", "a", "r", "m", "a",
                "c", "y", " ", "(", "F", "J", "1", "4", "4", ")" >> THEN << "B", "o", "o", "t", "s", " ",
                                              "P", "h", "a", "r", "m", "a",
                                              "c", "y" >>
    ELSE IF p.h # << "(", "P", "H", "A", "R", "M", "A", "C", "Y", ")" >> /\ p.title = << "D", "a", "y", " ", "L", "e",
                                               "w", "i", "s", " ", "P", "h",
                                               "a", "r", "m", "a", "c",
                                               "y" >>
         THEN << "D", "a", "y", " ", "L", "e", "w", "i", "s", " ", "P", "h",
                 "a", "r", "m", "a", "c", "y" >>
         ELSE << >>

ShownPostcode(p) == IF p.addr = << >> THEN << >> ELSE << "L", "S", "1", " ", "4",
                                                         "A", "P" >>

(* C4: when the gate has let the page through, the call returns a record   *)
(* unless the browser failed in both passes; every metric that the page    *)
(* does not show has its default in the record ('0', and '0%' for eps), so *)
(* a page without any metric gives six defaults; and in the primary pass   *)
(* every metric that the page shows has the shown value, the postcode is   *)
(* the shown one and the name read from the page is the shown one,         *)
(* whichever other metrics are absent.                                     *)
C4_MissingMetricsDefault ==
    GatePassed =>
        /\ gd_ret.none <=> gd_pass = "failed"
        /\ ~gd_ret.none =>
               \A m \in Metrics \ gd_page.metrics :
                   gd_ret.metric[m] = IF m = "eps" THEN << "0", "%" >> ELSE << "0" >>
        /\ gd_pass = "primary" =>
               /\ \A m \in gd_page.metrics : gd_ret.metric[m] = MetricShown(m)
               /\ ShownPostcode(gd_page) # << >> =>
                      gd_ret.postcode = ShownPostcode(gd_page)
               /\ "name" \in extracted /\ ShownName(gd_page) # << >> =>
                      gd_ret.name = ShownName(gd_page)

\* a page without any metric has passed the gate and the primary pass has
\* returned a record with a name and a postcode read from the page
C4_Witness ==
    /\ GatePassed /\ gd_pass = "primary"
    /\ gd_page.metrics = { }
    /\ ~gd_ret.none
    /\ gd_ret.metric = [ m \in Metrics |-> IF m = "eps" THEN << "0", "%" >> ELSE << "0" >> ]
    /\ gd_ret.name = << "D", "a", "y", " ", "L", "e", "w", "i", "s", " ",
                        "P", "h", "a", "r", "m", "a", "c", "y" >>
    /\ gd_ret.postcode = << "L", "S", "1", " ", "4", "A", "P" >>

(* C5: on a page that holds a marker, in whatever casing, no field is ever *)
(* extracted and the call returns None; on a page that holds no marker the *)
(* gate never refuses, also when the page shows no metric.                 *)
C5_NotFoundGateFirst ==
    /\ gd_page.marker # << >> =>
           /\ extracted = { }
           /\ gd_pass = "none"
           /\ gd_pc = "done" => gd_ret.none
    /\ gd_page.marker = << >> => gd_gate # "refused"

\* the gate has refused a page whose marker is written in mixed case
C5_Witness ==
    /\ gd_pc = "done" /\ gd_gate = "refused"
    /\ gd_page.marker = << "P", "h", "a", "r", "m", "a", "c", "y", " ", "N",
                           "o", "t", " ", "F", "o", "u", "n", "d" >>
    /\ gd_ret.none /\ extracted = { }

(* C9: every record that the call returns, from the primary pass or from   *)
(* the fallback pass, has a name and a postcode that are not empty.        *)
C9_RecordNameAndPostcode ==
    (gd_pc = "done" /\ ~gd_ret.none) =>
        /\ gd_ret.name # << >>
        /\ gd_ret.postcode # << >>

(* C20: when the primary extraction raises after the gate has let the page *)
(* through, the fallback pass runs; the record it returns has the name and *)
(* the postcode it finds in the text of the page (the name made from the   *)
(* identifier and 'N/A' when the text has none), the address 'Address not  *)
(* found' and the six defaults; the call returns None after the gate only  *)
(* when the fallback pass has failed too.                                  *)
C20_FallbackRecord ==
    /\ gd_pc = "fallback" => (gd_gate = "passed" /\ gd_driver = "open")
    /\ GatePassed =>
           /\ gd_pass \in { "primary", "fallback", "failed" }
           /\ gd_ret.none => gd_pass = "failed"
    /\ gd_pass = "fallback" =>
           /\ GatePassed
           /\ ~gd_ret.none
           /\ gd_ret.name = FallbackName(gd_page, gd_id)
           /\ gd_ret.name # << >>
           /\ gd_ret.postcode = IF ShownPostcode(gd_page) # << >>
                                THEN ShownPostcode(gd_page) ELSE << "N", "/", "A" >>
           /\ gd_ret.address = << "A", "d", "d", "r", "e", "s", "s", " ",
                                  "n", "o", "t", " ", "f", "o", "u", "n",
                                  "d" >>
           /\ gd_ret.metric =
                  [ m \in Metrics |-> IF m = "eps" THEN << "0", "%" >> ELSE << "0" >> ]

\* on a page that shows a name, a postcode and metrics, the primary pass
\* has raised and the fallback pass has returned its record
C20_Witness ==
    /\ GatePassed /\ gd_pass = "fallback" /\ gd_load = "ok"
    /\ gd_page.h = << "B", "o", "o", "t", "s", " ", "P", "h", "a", "r", "m",
                      "a", "c", "y", " ", "(", "F", "J", "1", "4", "4",
                      ")" >>
    /\ gd_page.metrics # { }
    /\ gd_ret.name = << "B", "o", "o", "t", "s", " ", "P", "h", "a", "r",
                        "m", "a", "c", "y" >>
    /\ gd_ret.postcode = << "L", "S", "1", " ", "4", "A", "P" >>
    /\ gd_ret.address = << "A", "d", "d", "r", "e", "s", "s", " ", "n", "o",
                           "t", " ", "f", "o", "u", "n", "d" >>
    /\ gd_ret.metric["items"] = << "0" >>

(* C22: the identifier of every record the call returns is in the format   *)
(* of an ODS code: 5 characters, an upper-case letter followed by four     *)
(* upper-case letters or digits, and none of CLASS, WIDTH, HTTPS, whatever *)
(* identifier was passed and whatever the page holds.                      *)
C22_RecordIdIsOdsCode ==
    (gd_pc = "done" /\ ~gd_ret.none) =>
        /\ Len(gd_ret.id) = 5
        /\ IsCodeAt(gd_ret.id, 1)
        /\ gd_ret.id \notin Denylist

(***************************************************************************)
(* handle_message of bot.py: the identifiers are fetched and their pages   *)
(* scraped one after the other in the coroutine itself, and one message    *)
(* reports all of them.                                                    *)
(***************************************************************************)
\* the message texts tried
BotInputs == { << >>, << " " >>, << "W", "9", " ", "1", "S", "Y" >>, << " ", "w", "9", " ", "1", "s", "y",
                                        " " >> }

\* a message of the chat of bot.py and the lines of a results message
BotReply(kind, lines) == [ kind |-> kind, lines |-> lines ]

BotInit ==
    /\ bot_update \in BotInputs
    /\ bot_pc = "idle" /\ bot_ids = << >> /\ bot_results = << >>
    /\ progress_msg = "none" /\ bot_replies = << >> /\ bot_open = 0
    /\ OdsIdle
    /\ HmIdle
    /\ SpIdle
    /\ GdIdle
    /\ PdIdle
    /\ FxIdle
    /\ MtIdle

\* bot.py lines 201-217: the update is read and stripped; an empty text is
\* answered at once, for any other the search is announced and the progress
\* message created
Bot_Receive ==
    /\ bot_pc = "idle"
    /\ IF StrStrip(bot_update) = << >>
       THEN /\ bot_replies' = << BotReply("provide_postcode", << >>) >>
            /\ bot_pc' = "done"
            /\ UNCHANGED progress_msg
       ELSE /\ bot_replies' = << BotReply("searching_for", << >>) >>
            /\ progress_msg' = "searching"
            /\ bot_pc' = "fetch"
    /\ bot_update' = << >>
    /\ UNCHANGED << bot_ids, bot_results, bot_open, odsVars, hmVars, spVars,
                    gdVars, fxVars, mtVars, pdVars >>

\* bot.py lines 219, 80-85: fetch_pharmacies_selenium starts its browser
Bot_FetchStart ==
    /\ bot_pc = "fetch"
    /\ bot_open' = bot_open + 1
    /\ bot_pc' = "fetching"
    /\ UNCHANGED << bot_update, bot_ids, bot_results, progress_msg,
                    bot_replies, odsVars, hmVars, spVars, gdVars, fxVars,
                    mtVars, pdVars >>

\* bot.py lines 84-88, 221-223: the browser does not start, the call returns
\* None and the user is told that nothing was found
Bot_FetchStartFail ==
    /\ bot_pc = "fetch"
    /\ progress_msg' = "none_found"
    /\ bot_pc' = "done"
    /\ UNCHANGED << bot_update, bot_ids, bot_results, bot_replies, bot_open,
                    odsVars, hmVars, spVars, gdVars, fxVars, mtVars, pdVars >>

\* bot.py lines 90-122 and 219-226: fetch_pharmacies_selenium returns None
\* (no result row, an exception) or up to five identifiers, and its finally
\* clause quits the browser
Bot_Fetch ==
    /\ bot_pc = "fetching"
    /\ bot_open' = bot_open - 1
    /\ \E ids \in SearchReturns :
          IF ids = << >>
          THEN /\ progress_msg' = "none_found"
               /\ bot_pc' = "done"
               /\ UNCHANGED bot_ids
          ELSE /\ bot_ids' = ids
               /\ progress_msg' = "found"
               /\ bot_pc' = "scrape"
    /\ UNCHANGED << bot_update, bot_results, bot_replies, odsVars, hmVars,
                    spVars, gdVars, fxVars, mtVars, pdVars >>

\* bot.py lines 235-239, one turn of the loop: the data of the identifier,
\* or a line that says that they could not be got
ScrapeStep(scraped) ==
    LET idx == Len(bot_results) + 1
    IN  /\ bot_results' =
               Append(bot_results,
                      [ kind |-> IF scraped THEN "record" ELSE "could_not_get",
                        id |-> bot_ids[idx] ])
        /\ bot_pc' = IF idx = Len(bot_ids) THEN "respond" ELSE "scrape"

\* bot.py lines 232-233: the progress is shown at every second identifier
ShowProgress ==
    progress_msg' = IF (Len(bot_results) + 1) % 2 = 0 THEN "progress"
                    ELSE progress_msg

\* bot.py lines 231-235, 129-134: the progress is shown and
\* scrape_items_and_forms_selenium starts its browser
Bot_ScrapeStart ==
    /\ bot_pc = "scrape"
    /\ ShowProgress
    /\ bot_open' = bot_open + 1
    /\ bot_pc' = "scraping"
    /\ UNCHANGED << bot_update, bot_ids, bot_results, bot_replies, odsVars,
                    hmVars, spVars, gdVars, fxVars, mtVars, pdVars >>

\* bot.py lines 133-137, 238-239: the browser does not start, the call
\* returns None
Bot_ScrapeStartFail ==
    /\ bot_pc = "scrape"
    /\ ShowProgress
    /\ ScrapeStep(FALSE)
    /\ UNCHANGED << bot_update, bot_ids, bot_replies, bot_open, odsVars,
                    hmVars, spVars, gdVars, fxVars, mtVars, pdVars >>

\* a variant of the return of the scrape that leaves the browser open
Bot_Scrape_noquit ==
    /\ bot_pc = "scraping"
    /\ \E scraped \in BOOLEAN : ScrapeStep(scraped)
    /\ UNCHANGED << bot_update, bot_ids, progress_msg, bot_replies, bot_open,
                    odsVars, hmVars, spVars, gdVars, fxVars, mtVars, pdVars >>

\* bot.py lines 139-190 and 235-242: scrape_items_and_forms_selenium returns
\* the data of the page or None (a timeout, an exception), and its finally
\* clause quits the browser
Bot_Scrape ==
    /\ bot_pc = "scraping"
    /\ \E scraped \in BOOLEAN : ScrapeStep(scraped)
    /\ bot_open' = bot_open - 1
    /\ UNCHANGED << bot_update, bot_ids, progress_msg, bot_replies, odsVars,
                    hmVars, spVars, gdVars, fxVars, mtVars, pdVars >>

\* bot.py lines 244-262: one message with a paragraph or a line for each
\* entry of results, in place of the progress message
Bot_Respond ==
    /\ bot_pc = "respond"
    /\ progress_msg' = "deleted"
    /\ bot_replies' = Append(bot_replies, BotReply("results", bot_results))
    /\ bot_pc' = "done"
    /\ UNCHANGED << bot_update, bot_ids, bot_results, bot_open, odsVars,
                    hmVars, spVars, gdVars, fxVars, mtVars, pdVars >>

BotNext ==
    \/ Bot_Receive
    \/ Bot_FetchStart
    \/ Bot_FetchStartFail
    \/ Bot_Fetch
    \/ Bot_ScrapeStart
    \/ Bot_ScrapeStartFail
    \/ Bot_Scrape
    \/ Bot_Respond

\* either program handles one message
BothInit == HmInit \/ BotInit

BothNext == HmNext \/ BotNext

SpecHandlers == BothInit /\ [][BothNext]_vars

\* the entries of the final response of bot.py, empty before it is sent
FinalEntries ==
    IF bot_replies # << >> /\ bot_replies[Len(bot_replies)].kind = "results"
    THEN bot_replies[Len(bot_replies)].lines
    ELSE << >>

RepliesFor(id) == { k \in 1..Len(replies) : replies[k].id = id }

\* detail task i returned while the collection was listening
InTime(i) == tasks[i].st = "done" /\ (~timerFired \/ i \in atExpiry)

FinalMessages ==
    Len(replies) + (IF status_msg.text \in { "none", "deleted" } THEN 0 ELSE 1)

(* C12: when the handling of a message has ended, whatever its outcome,    *)
(* the chat shows exactly one message for it.                              *)
C12_ExactlyOneFinalMessage == pc = "done" => FinalMessages = 1

\* the coroutine of handle_message runs when it can and the timers of
\* asyncio.wait_for and asyncio.as_completed fire; nothing makes a fetch in
\* its thread return
HandlerFairness ==
    /\ WF_vars(HM_Receive)
    /\ WF_vars(HM_SearchTimeout)
    /\ WF_vars(HM_SearchDone)
    /\ WF_vars(HM_Timer)
    /\ WF_vars(HM_Collect)
    /\ WF_vars(HM_Send)
    /\ WF_vars(HM_LookupDone)

\* one message of each kind: an identifier, a postcode, a listed false
\* positive and a text that is none of them
LiveInputs == { << "a", "1", "1", "1", "1" >>, << "a", "1", " ", "1", "a", "a" >>, << "C", "L", "A", "S", "S" >>, << "A", "1", "-", "1" >> }

LiveInit == HmInit /\ update \in LiveInputs

SpecLive == LiveInit /\ [][HmNext]_vars /\ HandlerFairness

(* C13: the handling of every message ends, with its final response, also  *)
(* when a fetch of the search page or of a detail page never returns.      *)
C13_EventuallyAnswered == <>(pc = "done")

(***************************************************************************)
(* C15: when the browser could not be started for the search or for the    *)
(* direct look-up of a request, the request ends with a failure message    *)
(* that is neither "No pharmacies found" nor "not found", the messages of  *)
(* a legitimate empty result.  (startFailed holds 0 for the search and 1   *)
(* for the direct look-up.)                                                *)
(***************************************************************************)
C15_StartFailureReported ==
    (pc = "done" /\ startFailed # { }) =>
        status_msg.text \notin { "no_pharmacies", "not_found" }

\* the detail tasks whose browser session is open, and the records sent
OpenTasks == { i \in 1..Len(tasks) : tasks[i].st = "open" }

RecordsSent == { k \in 1..Len(replies) : replies[k].kind = "record" }

(* C24: within one postcode request at most 5 detail fetches are started,  *)
(* so that at most 5 detail sessions are open at the same time, and the    *)
(* number of records sent never exceeds the number of identifiers that the *)
(* search returned.                                                        *)
C24_BoundedFanOut ==
    route = "postcode" =>
        /\ Len(tasks) <= 5
        /\ Len(tasks) <= Len(search.ret)
        /\ Cardinality(OpenTasks) <= 5
        /\ Cardinality(RecordsSent) <= Len(search.ret)

\* the search returned five identifiers and the five detail sessions are
\* open at the same time
C24_Witness ==
    /\ route = "postcode" /\ pc = "collect"
    /\ Len(search.ret) = 5 /\ Len(tasks) = 5
    /\ Cardinality(OpenTasks) = 5

\* the names of the records sent, in the order of the messages
SentNames ==
    LET recs == SelectSeq(replies, LAMBDA r : r.kind = "record")
    IN  [ k \in 1..Len(recs) |-> recs[k].name ]

(* C25: the records of a postcode query are sent so that every record      *)
(* whose name contains 'Boots' comes before every record whose name does   *)
(* not, and within each of the two groups in ascending order of name, in   *)
(* whatever order the detail fetches completed.                            *)
C25_BootsFirstThenByName ==
    route = "postcode" =>
        \A k, l \in 1..Len(SentNames) :
            k < l =>
                LET bk == StrContains(SentNames[k], Boots)
                    bl == StrContains(SentNames[l], Boots)
                IN  /\ bl => bk
                    /\ (bk <=> bl) => ~StrLess(SentNames[l], SentNames[k])

\* four fetches gave the records Zed, Boots B, Asda and Boots, and they
\* were sent as Boots, Boots B, Asda, Zed
C25_Witness ==
    /\ route = "postcode" /\ pc = "done"
    /\ SentNames = << Boots, Boots \o << " ", "B" >>, << "A", "s", "d", "a" >>,
                      << "Z", "e", "d" >> >>

(* C26: within one postcode request a detail fetch exists only after the   *)
(* search call has returned a list that is not empty, so that the search   *)
(* has quit its browser before the first detail session is opened; after a *)
(* search timeout no detail fetch is ever started.                         *)
C26_DetailsAfterSearch ==
    route = "postcode" =>
        /\ tasks # << >> =>
               /\ search.st = "returned"
               /\ search.ret # << >>
               /\ pharmacy_ids = search.ret
        /\ status_msg.text = "search_timeout" =>
               (tasks = << >> /\ pc = "done")

\* the search returned its identifiers after the handler had given up on
\* it: the request has ended without any detail fetch
C26_Witness ==
    /\ route = "postcode" /\ pc = "done"
    /\ status_msg.text = "search_timeout"
    /\ search.st = "returned" /\ search.ret # << >>
    /\ tasks = << >>

\* the tasks that returned a record after the collection timer had fired
LateRecords ==
    { i \in 1..Len(tasks) :
        /\ timerFired /\ i \notin atExpiry
        /\ tasks[i].st = "done" /\ tasks[i].out.kind = "record" }

\* the identifiers of the records sent
SentIds == { replies[k].id : k \in RecordsSent }

\* when the collection timer has fired, the records sent are those of the
\* tasks that had returned a record by then, and none of a later one
SentAreCollected ==
    (route = "postcode" /\ timerFired) =>
        /\ \A i \in LateRecords : tasks[i].id \notin SentIds
        /\ pc = "done" =>
               /\ SentIds = { tasks[i].id : i \in atExpiry }
               /\ Cardinality(RecordsSent) = Cardinality(atExpiry)

\* a request that has ended shows the same messages ever after
EndedStaysAsItIs ==
    pc = "done" => (replies' = replies /\ status_msg' = status_msg)

(* C27: after the collection budget of a postcode request has expired, the *)
(* record of a detail fetch that completes late is never sent and never    *)
(* changes the messages of the request: the records sent are exactly those *)
(* collected before the timeout.                                           *)
C27_LateRecordsDropped == []SentAreCollected /\ [][EndedStaysAsItIs]_vars

\* the timer fired with one record collected; it was sent, and the record
\* of a fetch that returned after that was not
C27_Witness ==
    /\ route = "postcode" /\ pc = "done" /\ timerFired
    /\ Cardinality(atExpiry) = 1 /\ Cardinality(RecordsSent) = 1
    /\ LateRecords # { }

(***************************************************************************)
(* Properties of both fetches: one call of search_pharmacies or one call   *)
(* of get_pharmacy_details.                                                *)
(***************************************************************************)
\* the search pages whose elements the first selector finds, and those
\* whose elements no selector finds
FetchPages == { p \in Pages : p.kind \in { "tr", "p" } }

FetchInit == (SpInit /\ page \in FetchPages) \/ GdInit

FetchNext == SpNext \/ GdNext

SpecFetch == FetchInit /\ [][FetchNext]_vars

(* C14: when a call of search_pharmacies or of get_pharmacy_details has    *)
(* returned, no browser session of that call is open: a session that was   *)
(* started has been quit, on whatever path the call ended.                 *)
C14_SessionTornDown ==
    /\ sp_pc = "done" => sp_driver \in { "none", "quit" }
    /\ gd_pc = "done" => gd_driver \in { "none", "quit" }

\* a detail call whose page load timed out and whose primary pass raised
\* has returned the record of the fallback pass and quit its browser
C14_Witness ==
    /\ gd_pc = "done" /\ gd_load = "timeout" /\ gd_pass = "fallback"
    /\ ~gd_ret.none /\ gd_driver = "quit"

\* the step in which a page load times out hands the call, its browser
\* still open, to what follows the load: the first strategy of the search,
\* the not-found gate of the detail call
TimeoutGoesOn ==
    /\ (sp_pc = "load" /\ sp_load' = "timeout") =>
           (sp_pc' = "rows" /\ sp_driver' = "open" /\ page' = page)
    /\ (gd_pc = "load" /\ gd_load' = "timeout") =>
           (gd_pc' = "gate" /\ gd_driver' = "open" /\ gd_page' = gd_page)

\* what a call whose load timed out returns is what its steps make of the
\* content the browser holds
AfterTimeout ==
    /\ (sp_load = "timeout" /\ sp_pc = "done" /\ producer = 1) =>
           sp_ret = Take(AppendNew(<< >>, SelectorsCodes(page, 1, 5)),
                         MaxPharmacies)
    /\ (gd_load = "timeout" /\ gd_gate = "refused") =>
           (NotFoundGate(DetailSource(gd_page)) /\ gd_ret.none)
    /\ (gd_load = "timeout" /\ gd_pass = "primary") =>
           /\ gd_gate = "passed"
           /\ ~gd_ret.none
           /\ gd_ret.postcode = ExtractPostcode(DetailText(gd_page))
           /\ \A m \in Metrics :
                 gd_ret.metric[m] = ExtractMetric(DetailText(gd_page), m)

(* C16: a page-load timeout is not fatal.  After a timeout while the       *)
(* search page loads, search_pharmacies goes on to its strategies, which   *)
(* work on the content present; after a timeout while a detail page loads, *)
(* get_pharmacy_details goes on to the not-found gate and the extraction   *)
(* of the fields from the content present.                                 *)
C16_LoadTimeoutNotFatal == []AfterTimeout /\ [][TimeoutGoesOn]_vars

\* a search whose page load timed out has returned the identifiers of the
\* rows of the page
C16_Witness ==
    /\ sp_pc = "done" /\ sp_load = "timeout" /\ producer = 1
    /\ sp_ret # << >>

\* the places of a call: its steps, and "done" once it has returned
SpPlaces == { "start", "load", "rows", "links", "scan", "click", "js", "done" }

GdPlaces == { "start", "load", "gate", "name", "fields", "fallback", "done" }

(* C21: search_pharmacies and get_pharmacy_details never raise, whatever   *)
(* the browser or the page does: each call is at one of its steps or has   *)
(* returned, search_pharmacies a list, which is empty when the browser did *)
(* not start and when no attempt returned, get_pharmacy_details None or a  *)
(* record with its six metrics, None when the browser did not start or     *)
(* the navigation raised.                                                  *)
C21_NeverRaises ==
    /\ sp_pc \in SpPlaces
    /\ gd_pc \in GdPlaces
    /\ sp_pc = "done" =>
           /\ Len(sp_ret) \in 0..MaxPharmacies
           /\ (sp_driver = "none" \/ producer = 0) => sp_ret = << >>
    /\ gd_pc = "done" =>
           /\ gd_ret = NoRecord \/ (~gd_ret.none /\ DOMAIN gd_ret.metric = Metrics)
           /\ (gd_driver = "none" \/ gd_load = "error") => gd_ret = NoRecord

\* a search whose navigation raised and whose attempts gave nothing has
\* returned the empty list and quit its browser
C21_Witness ==
    /\ sp_pc = "done" /\ sp_load = "error" /\ producer = 0
    /\ sp_ret = << >> /\ sp_driver = "quit"

(***************************************************************************)
(* Properties of a query from the search to the handler: one call of       *)
(* search_pharmacies, or one message to handle_message.                    *)
(***************************************************************************)
QueryInit == HmInit \/ SpInit

QueryNext == HmNext \/ SpNext

SpecQuery == QueryInit /\ [][QueryNext]_vars

\* the step handle_message takes when the search has handed it the empty
\* list: the user is told that no pharmacies were found, the request ends
SearchEmptyStep ==
    (pc = "search" /\ search.st = "returned" /\ search.ret = << >>
       /\ pc' # "search") =>
        /\ status_msg'.text = "no_pharmacies"
        /\ pc' = "done"
        /\ tasks' = << >>

\* a search none of whose attempts saw a code has returned the empty
\* list, and a request that was told "no pharmacies found" has no detail
\* fetch and no record
SearchEmpty ==
    /\ (sp_pc = "done" /\ \A a \in 1..5 : seen[a] = << >>) =>
           (sp_ret = << >> /\ producer = 0)
    /\ status_msg.text = "no_pharmacies" =>
           /\ pc = "done" /\ search.ret = << >>
           /\ tasks = << >> /\ results = << >> /\ replies = << >>

(* C17: when no strategy yields an identifier, search_pharmacies returns   *)
(* the empty list (it ends by a return, it raises nothing); the handler    *)
(* that receives the empty list reports "no pharmacies found", and no      *)
(* detail fetch is started for that request.                               *)
C17_NothingFound == []SearchEmpty /\ [][SearchEmptyStep]_vars

\* a request whose search started its browser and returned the empty list
\* has ended with "no pharmacies found" and without a detail task
C17_Witness ==
    /\ pc = "done" /\ route = "postcode" /\ startFailed = { }
    /\ search.st = "returned" /\ search.ret = << >>
    /\ status_msg.text = "no_pharmacies" /\ tasks = << >>

(***************************************************************************)
(* The browser sessions of concurrent detail fetches: every task that      *)
(* handle_message creates (lines 813-819) runs get_pharmacy_details in a   *)
(* thread of its own, and the threads of one request and of the requests   *)
(* that are handled at the same time interleave freely.                    *)
(***************************************************************************)
FxInit ==
    /\ fx_pc = [ f \in Fetches |-> "none" ]
    /\ fx_driver = [ f \in Fetches |-> 0 ]
    /\ chrome = << >>
    /\ OdsIdle
    /\ HmIdle
    /\ SpIdle
    /\ GdIdle
    /\ BotIdle
    /\ PdIdle
    /\ MtIdle

\* lines 813-819: request r creates one task for each of its n identifiers
FX_Spawn(r) ==
    /\ \A i \in 1..FxFan : fx_pc[<< r, i >>] = "none"
    /\ \E n \in 1..FxFan :
         fx_pc' = [ f \in Fetches |->
                      IF f[1] = r /\ f[2] <= n THEN "pending" ELSE fx_pc[f] ]
    /\ UNCHANGED << fx_driver, chrome, odsVars, hmVars, spVars, gdVars,
                    botVars, mtVars, pdVars >>

\* a variant of the start that takes the session created last, as a driver
\* kept at module level would be taken, and creates one only when there is
\* none
FX_Start_shared(f) ==
    /\ fx_pc[f] = "pending"
    /\ fx_pc' = [ fx_pc EXCEPT ![f] = "open" ]
    /\ IF chrome = << >>
       THEN /\ chrome' = << [ st |-> "open", users |-> { } ] >>
            /\ fx_driver' = [ fx_driver EXCEPT ![f] = 1 ]
       ELSE /\ fx_driver' = [ fx_driver EXCEPT ![f] = Len(chrome) ]
            /\ UNCHANGED chrome
    /\ UNCHANGED << odsVars, hmVars, spVars, gdVars, botVars, mtVars, pdVars
                    >>

\* lines 351-358: webdriver.Chrome(options=options) creates a session and
\* the local variable driver of this call refers to it
FX_Start(f) ==
    /\ fx_pc[f] = "pending"
    /\ fx_pc' = [ fx_pc EXCEPT ![f] = "open" ]
    /\ chrome' = Append(chrome, [ st |-> "open", users |-> { } ])
    /\ fx_driver' = [ fx_driver EXCEPT ![f] = Len(chrome) + 1 ]
    /\ UNCHANGED << odsVars, hmVars, spVars, gdVars, botVars, mtVars, pdVars
                    >>

\* lines 354, 627-634: the browser does not start, the call returns None
FX_StartFail(f) ==
    /\ fx_pc[f] = "pending"
    /\ fx_pc' = [ fx_pc EXCEPT ![f] = "done" ]
    /\ UNCHANGED << fx_driver, chrome, odsVars, hmVars, spVars, gdVars,
                    botVars, mtVars, pdVars >>

\* lines 357-625: the call drives the session of its variable driver
FX_Use(f) ==
    /\ fx_pc[f] = "open"
    /\ f \notin chrome[fx_driver[f]].users
    /\ chrome' = [ chrome EXCEPT ![fx_driver[f]].users = @ \cup { f } ]
    /\ UNCHANGED << fx_pc, fx_driver, odsVars, hmVars, spVars, gdVars,
                    botVars, mtVars, pdVars >>

\* lines 376-634: the call returns and its finally clause quits the session
\* of its variable driver
FX_Return(f) ==
    /\ fx_pc[f] = "open"
    /\ fx_pc' = [ fx_pc EXCEPT ![f] = "done" ]
    /\ chrome' = [ chrome EXCEPT ![fx_driver[f]].st = "quit" ]
    /\ UNCHANGED << fx_driver, odsVars, hmVars, spVars, gdVars, botVars,
                    mtVars, pdVars >>

FxNext ==
    \/ \E r \in FxRequests : FX_Spawn(r)
    \/ \E f \in Fetches :
         \/ FX_Start(f)
         \/ FX_StartFail(f)
         \/ FX_Use(f)
         \/ FX_Return(f)

SpecSessions == FxInit /\ [][FxNext]_vars

(* C23: each detail fetch owns its browser session.  No two fetches, of    *)
(* one request or of different requests, running or returned, have the     *)
(* same session; no session is driven by two fetches; and the session of a *)
(* running fetch has not been quit by another.                             *)
C23_SessionOwnedByOneFetch ==
    /\ \A f, g \in Fetches :
          (f # g /\ fx_driver[f] # 0) => fx_driver[f] # fx_driver[g]
    /\ \A s \in 1..Len(chrome) : Cardinality(chrome[s].users) <= 1
    /\ \A f \in Fetches :
          fx_pc[f] = "open" => chrome[fx_driver[f]].st = "open"

\* two fetches of one request and one of another run at the same time, each
\* driving a session of its own, after an earlier fetch has returned
C23_Witness ==
    /\ fx_pc[<< 1, 1 >>] = "done" /\ fx_driver[<< 1, 1 >>] # 0
    /\ fx_pc[<< 1, 2 >>] = "open" /\ fx_pc[<< 2, 1 >>] = "open"
    /\ fx_pc[<< 2, 2 >>] = "open"
    /\ \A f \in Fetches : fx_pc[f] = "open" =>
                             chrome[fx_driver[f]].users = { f }
    /\ Cardinality({ fx_driver[f] : f \in Fetches }) = 4

(***************************************************************************)
(* The extraction of one metric from a text (lines 447-505), for every     *)
(* text made of a label of the metric and a short tail.                    *)
(***************************************************************************)
MtAlphabet == { "1", ",", ".", "%", ":", " " }

MtLen == 3

\* the texts tried: a label of the metric followed by what the page holds
\* after it
MtTexts(m) ==
    { MetricLabels(m)[n] \o tail :
        n \in 1..Len(MetricLabels(m)), tail \in StringsUpTo(MtAlphabet, MtLen) }

MtInit ==
    /\ mt_metric \in Metrics
    /\ mt_text \in MtTexts(mt_metric)
    /\ mt_ret = << >> /\ mt_pc = "search"
    /\ OdsIdle
    /\ HmIdle
    /\ SpIdle
    /\ GdIdle
    /\ BotIdle
    /\ PdIdle
    /\ FxIdle

\* lines 447-505 for the metric: the default, replaced by group(1) when the
\* pattern matches
MT_Extract ==
    /\ mt_pc = "search"
    /\ mt_ret' = ExtractMetric(mt_text, mt_metric)
    /\ mt_pc' = "done"
    /\ UNCHANGED << mt_text, mt_metric, odsVars, hmVars, spVars, gdVars,
                    botVars, fxVars, pdVars >>

MtNext == MT_Extract

SpecMetric == MtInit /\ [][MtNext]_vars

\* s holds a digit; s is digits followed by a percent sign
HasDigit(s) == \E k \in 1..Len(s) : s[k] \in DigitSet

IsPercentage(s) ==
    /\ Len(s) >= 2 /\ s[Len(s)] = "%"
    /\ \A k \in 1..(Len(s) - 1) : s[k] \in DigitSet

(* C28: the value of a metric in the record is the default of the metric   *)
(* ('0', '0%' for eps) or a numeric string captured after the label: it    *)
(* holds at least one digit, and the value of eps is digits followed by a  *)
(* percent sign.                                                           *)
C28_MetricIsNumeric ==
    mt_pc = "done" =>
        \/ mt_ret = MetricDefault(mt_metric)
        \/ /\ HasDigit(mt_ret)
           /\ mt_metric = "eps" => IsPercentage(mt_ret)


(***************************************************************************)
(* pharmacy_data.py: handle_message scrapes every identifier that the      *)
(* search returned, one browser after the other; each scrape saves a       *)
(* screenshot of the page to the file pharmacy_<id>.png.  The handler then *)
(* formats the results, sends the screenshot of every scraped record and   *)
(* removes its file.                                                       *)
(***************************************************************************)
PdInit ==
    /\ pd_update \in BotInputs
    /\ pd_pc = "idle" /\ pd_ids = << >> /\ pd_results = << >>
    /\ pd_files = { } /\ pd_next = 1 /\ pd_replies = << >>
    /\ OdsIdle
    /\ HmIdle
    /\ SpIdle
    /\ GdIdle
    /\ BotIdle
    /\ FxIdle
    /\ MtIdle

\* the handler has returned or an exception has left it
PdEnded == pd_pc \in { "done", "raised" }

\* pharmacy_data.py lines 205-210: the text is stripped; an empty one is
\* answered at once
PD_Receive ==
    /\ pd_pc = "idle"
    /\ IF StrStrip(pd_update) = << >>
       THEN /\ pd_replies' = << "provide_postcode" >>
            /\ pd_pc' = "done"
       ELSE /\ pd_pc' = "fetch"
            /\ UNCHANGED pd_replies
    /\ pd_update' = << >>
    /\ UNCHANGED << pd_ids, pd_results, pd_files, pd_next, odsVars, hmVars,
                    spVars, gdVars, botVars, fxVars, mtVars >>

\* pharmacy_data.py lines 213-216, 252-255: the search returns identifiers
\* and the fetching is announced, or it returns none and the user is told
PD_Fetch ==
    /\ pd_pc = "fetch"
    /\ \E ids \in SearchReturns :
          IF ids = << >>
          THEN /\ pd_replies' = Append(pd_replies, "no_pharmacies")
               /\ pd_pc' = "done"
               /\ UNCHANGED pd_ids
          ELSE /\ pd_ids' = ids
               /\ pd_replies' = Append(pd_replies, "fetching")
               /\ pd_pc' = "scrape"
    /\ UNCHANGED << pd_update, pd_results, pd_files, pd_next, odsVars,
                    hmVars, spVars, gdVars, botVars, fxVars, mtVars >>

\* the identifier that the loop of lines 220-226 is at
PdScraping == pd_ids[Len(pd_results) + 1]

\* pharmacy_data.py lines 221-226: the value of the scrape is stored, or a
\* failure line in its place; after the last identifier the results are
\* formatted
PdStore(scraped) ==
    /\ pd_results' =
           Append(pd_results,
                  [ kind |-> IF scraped THEN "record" ELSE "failed",
                    id |-> PdScraping ])
    /\ pd_pc' = IF Len(pd_results) + 1 = Len(pd_ids) THEN "format"
                ELSE "scrape"

\* pharmacy_data.py line 132: the browser is created outside the try of
\* scrape_items_and_forms_selenium, so an exception of the start leaves
\* the scrape and, uncaught at line 221, the handler
PD_StartRaise ==
    /\ pd_pc = "scrape"
    /\ pd_pc' = "raised"
    /\ UNCHANGED << pd_update, pd_ids, pd_results, pd_files, pd_next,
                    pd_replies, odsVars, hmVars, spVars, gdVars, botVars,
                    fxVars, mtVars >>

\* pharmacy_data.py lines 134-139, 191-196: loading the page or clearing the
\* storage raises before the screenshot; the scrape returns None
PD_ScrapeFailEarly ==
    /\ pd_pc = "scrape"
    /\ PdStore(FALSE)
    /\ UNCHANGED << pd_update, pd_ids, pd_files, pd_next, pd_replies,
                    odsVars, hmVars, spVars, gdVars, botVars, fxVars,
                    mtVars >>

\* pharmacy_data.py lines 142-174, 191-196: the screenshot is saved, then
\* the wait for the fields times out or a field is missing; the except
\* clause returns None and the file stays
PD_ScrapeFailLate ==
    /\ pd_pc = "scrape"
    /\ pd_files' = pd_files \cup { PdScraping }
    /\ PdStore(FALSE)
    /\ UNCHANGED << pd_update, pd_ids, pd_next, pd_replies, odsVars, hmVars,
                    spVars, gdVars, botVars, fxVars, mtVars >>

\* pharmacy_data.py lines 142-189: the screenshot is saved and the record
\* returned with the name of the file
PD_ScrapeOk ==
    /\ pd_pc = "scrape"
    /\ pd_files' = pd_files \cup { PdScraping }
    /\ PdStore(TRUE)
    /\ UNCHANGED << pd_update, pd_ids, pd_next, pd_replies, odsVars, hmVars,
                    spVars, gdVars, botVars, fxVars, mtVars >>

\* pharmacy_data.py lines 231-251, one turn of the loop on a failure line:
\* the line is added to the response
PD_FormatLine ==
    /\ pd_pc = "format" /\ pd_next <= Len(pd_results)
    /\ pd_results[pd_next].kind = "failed"
    /\ pd_next' = pd_next + 1
    /\ UNCHANGED << pd_update, pd_pc, pd_ids, pd_results, pd_files,
                    pd_replies, odsVars, hmVars, spVars, gdVars, botVars,
                    fxVars, mtVars >>

\* pharmacy_data.py lines 232-248, one turn of the loop on a record: the
\* screenshot is sent and its file removed
PD_SendPhoto ==
    /\ pd_pc = "format" /\ pd_next <= Len(pd_results)
    /\ pd_results[pd_next].kind = "record"
    /\ pd_replies' = Append(pd_replies, "photo")
    /\ pd_files' = pd_files \ { pd_results[pd_next].id }
    /\ pd_next' = pd_next + 1
    /\ UNCHANGED << pd_update, pd_pc, pd_ids, pd_results, odsVars, hmVars,
                    spVars, gdVars, botVars, fxVars, mtVars >>

\* pharmacy_data.py lines 244-245: reply_photo raises; nothing catches the
\* exception, so line 248 and the rest of the handler do not run
PD_SendPhotoRaise ==
    /\ pd_pc = "format" /\ pd_next <= Len(pd_results)
    /\ pd_results[pd_next].kind = "record"
    /\ pd_pc' = "raised"
    /\ UNCHANGED << pd_update, pd_ids, pd_results, pd_files, pd_next,
                    pd_replies, odsVars, hmVars, spVars, gdVars, botVars,
                    fxVars, mtVars >>

\* pharmacy_data.py line 253: the response is sent
PD_Respond ==
    /\ pd_pc = "format" /\ pd_next > Len(pd_results)
    /\ pd_replies' = Append(pd_replies, "results")
    /\ pd_pc' = "done"
    /\ UNCHANGED << pd_update, pd_ids, pd_results, pd_files, pd_next,
                    odsVars, hmVars, spVars, gdVars, botVars, fxVars,
                    mtVars >>

PdNext ==
    \/ PD_Receive
    \/ PD_Fetch
    \/ PD_StartRaise
    \/ PD_ScrapeFailEarly
    \/ PD_ScrapeFailLate
    \/ PD_ScrapeOk
    \/ PD_FormatLine
    \/ PD_SendPhoto
    \/ PD_SendPhotoRaise
    \/ PD_Respond

SpecShots == PdInit /\ [][PdNext]_vars

(* C30: when handle_message of pharmacy_data.py has ended, no screenshot   *)
(* file that a scrape of the request created is left on disk, also when a  *)
(* scrape failed after saving its screenshot or the sending of a photo     *)
(* failed.                                                                 *)
C30_ScreenshotsRemoved == PdEnded => pd_files = { }

=============================================================================
